---- MODULE Spec2Model ----
\* Model of the UnitTesting orchestration engine (UnitTesting.cpp, newer
\* revision): result aggregation, suite registration, the dependency
\* resolver (SolveDependencies / TopoVisit) and the scheduler
\* (RunSuites / CheckDependencies / Suite::Run / Test::Run).
\*
\* Indices are 0-based as in the source; TLA+ sequences are 1-based, so the
\* i-th element of a std::vector v is v[i + 1].
EXTENDS Integers, Sequences, FiniteSets, TLC

\* ------------------------------------------------------------------ bounds
MaxSuites  == 3   \* suites registered before Run (resolver runs)
MaxRunSuites == 2 \* suites registered before Run (scheduler runs)
MaxNamedSuites == 4 \* suites registered before Run (naming runs)
MaxNames   == 2   \* different suite names (naming runs)
MaxDeps    == 2   \* dependency names declared by one suite
MaxEdges   == 3   \* dependency names declared by all suites together
MaxTests   == 2   \* tests registered in one suite
MaxThrowers == 1  \* suites whose fixtures and test bodies can throw
MaxAsserts == 1   \* assertions one execution of a test body records
MaxRepeats == 1   \* times OnTestEnd answers "repeat" for one test
MaxFeed    == 4   \* outcomes fed to a stand-alone aggregator

\* ------------------------------------------------------------ enumerations
\* enum class Result
Result == {"Success", "Fail", "Unknown"}

\* enum class ControlAction
ControlAction == {"Procceed", "Ignore", "Abort", "AbortCurrent", "Repeat"}

\* Names a suite can be registered under (the k-th fresh name is NameSeq[k]),
\* and one name no suite is ever registered under.
NameSeq    == <<"a", "b", "c", "d", "e">>
SuiteNames == {NameSeq[k] : k \in 1..Len(NameSeq)}
GhostName  == "ghost"
DepNames   == SuiteNames \cup {GhostName}

\* The fixed message of the synthetic assertion Test::Run adds.
ExceptionMessage == "Unknown Exception was thrown."

\* ------------------------------------------------------------ result model
\* ResultObject::ResultObject
NewResultObject == "Success"

\* AddResult without the test that Fail is final.
AddResult_FailNotFinal(total, result) ==
    IF result # "Success" THEN result ELSE total

\* ResultObject::AddResult: the new value of m_TotalResult.
AddResult(total, result) ==
    IF total # "Fail" /\ result # "Success" THEN result ELSE total

\* TestResult::AddResult of the earlier revision (UnitTesting.cpp, first
\* revision): the new value of m_TotalResult.
AddResultOld(total, result) ==
    IF total = "Success" \/ total = "Unknown"
    THEN IF result = "Unknown" \/ result = "Fail" THEN result ELSE total
    ELSE total

\* A null pointer; suites and tests are pointed to by their indices, the
\* environment by TheEnvironment.
NullPtr == -1
TheEnvironment == "env"

\* Info::Info(name, file, line): the back-references are null.
NewInfo == [env |-> "null", suite |-> NullPtr, test |-> NullPtr]

\* Test::Test: m_Info with the back-references to test t of suite s set.
TestInfo(s, t) == [env |-> TheEnvironment, suite |-> s, test |-> t]

\* AssertResult::AssertResult(inf, res, msg)
AssertResult(inf, res, msg) ==
    [total |-> AddResult(NewResultObject, res), message |-> msg, info |-> inf]

\* TestResult::TestResult(test)
NewTestResult(s, t) == [suite |-> s, test |-> t, total |-> NewResultObject, asserts |-> <<>>]

\* TestResult::AddResult
TestAddResult(tr, a) ==
    [tr EXCEPT !.asserts = Append(@, a), !.total = AddResult(@, a.total)]

\* UNIT_ASSERT: the Info given to TestContext::AddResult.
AssertInfo == NewInfo

\* TestContext::AddResult: the local copy i after its three assignments.
ContextInfo(info, tr) == TestInfo(tr.suite, tr.test)

\* TestContext::AddResult: the assertion built; the copy i is filled in, and
\* the constructor is given the parameter info.
ContextAssert(info, tr, ok, msg) ==
    LET i == ContextInfo(info, tr) IN
    AssertResult(info, IF ok THEN "Success" ELSE "Fail", msg)

\* TestContext::AddResult: a boolean becomes Success or Fail.
ContextAddResult(tr, ok, msg) ==
    TestAddResult(tr, ContextAssert(AssertInfo, tr, ok, msg))

\* SuiteResult::SuiteResult(suite)
NewSuiteResult(s) == [suite |-> s, total |-> NewResultObject, results |-> <<>>]

\* The test outcome stored without folding its total into the suite's.
SuiteAddResult_TotalNotFolded(sr, tr) == [sr EXCEPT !.results = Append(@, tr)]

\* SuiteResult::AddResult
SuiteAddResult(sr, tr) ==
    [sr EXCEPT !.results = Append(@, tr), !.total = AddResult(@, tr.total)]

\* SuiteResult::SetTotalResult
SetTotalResult(sr, result) == [sr EXCEPT !.total = result]

\* EnvironmentResult::EnvironmentResult
NewEnvironmentResult == [total |-> NewResultObject, results |-> <<>>]

\* The suite outcome folded into the total but not stored.
EnvAddResult_NotStored(er, sr) == [er EXCEPT !.total = AddResult(@, sr.total)]

\* EnvironmentResult::AddResult
EnvAddResult(er, sr) ==
    [er EXCEPT !.results = Append(@, sr), !.total = AddResult(@, sr.total)]


\* ---------------------------------------------------------------- state
VARIABLES
    m_Suites,        \* Environment::m_Suites: the registered suites, in order
    m_SuiteMap,      \* Environment::m_SuiteMap: name -> index into m_Suites
    m_Filter,        \* Environment::m_Filter: each filter is the suites and the tests it accepts
    m_Callback,      \* Environment::m_Callback: "null", "user", "ignoring" or "fallback"
    pc,              \* position of the thread inside Environment::Run
    performSuites,   \* Run: performSuites / SolveDependencies: result
    solveI,          \* SolveDependencies: loop index i
    mark,            \* SolveDependencies: mark[i] = (first, second)
    unsolvable,      \* SolveDependencies: unsolvable
    stack,           \* call stack of TopoVisit: frames (cur, j, callee)
    visitResult,     \* value the last TopoVisit call returned
    it,              \* RunSuites: position in performSuites
    resultConnector, \* RunSuites: suite index -> index of its result
    envResult,       \* Run: result (the EnvironmentResult)
    suiteResult,     \* RunSuites: suiteResult of the suite being run
    procceed,        \* RunSuites: procceed
    depI,            \* CheckDependencies: loop index i
    testIt,          \* Suite::Run: position in m_Tests
    testResult,      \* Suite::Run: testResult of the attempt being run
    calls,           \* what the control policy and the callables have seen
    fed,             \* outcomes given to a stand-alone ResultObject so far
    aggregate,       \* that ResultObject's m_TotalResult
    aggregateOld     \* m_TotalResult of a TestResult of the earlier revision

vars == <<m_Suites, m_SuiteMap, m_Filter, m_Callback, pc, performSuites,
          solveI, mark, unsolvable, stack, visitResult, it, resultConnector,
          envResult, suiteResult, procceed, depI, testIt, testResult, calls,
          fed, aggregate, aggregateOld>>

registry == <<m_Suites, m_SuiteMap, m_Filter>>
solver   == <<solveI, mark, unsolvable, stack, visitResult>>
runner   == <<it, resultConnector, envResult, suiteResult, procceed, depI>>
suiteRun == <<testIt, testResult>>
aggregator == <<fed, aggregate, aggregateOld>>

\* ------------------------------------------------------------- registry
\* std::vector::size of m_Suites
SuiteCount == Len(m_Suites)
Indices    == 0 .. SuiteCount - 1
\* *m_Suites[i]
SuiteAt(i) == m_Suites[i + 1]

\* m_SuiteMap.end(): the value a name that is no key of the map is bound to.
MapEnd == -1

\* std::map<std::string, size_t>(): no key.
EmptyMap == [k \in DepNames |-> MapEnd]

\* The value of a present key replaced, as insert_or_assign does.
Emplace_Overwrites(map, key, value) == [map EXCEPT ![key] = value]

\* std::map::emplace: inserts only when the key is absent.
Emplace(map, key, value) ==
    IF map[key] # MapEnd THEN map ELSE [map EXCEPT ![key] = value]

\* The key bound to a value-initialized size_t also when it is present.
Subscript_Assigns(map, key) == [map EXCEPT ![key] = 0]

\* std::map::operator[]: inserts a value-initialized size_t when the key is absent.
Subscript(map, key) == Emplace(map, key, 0)

\* Environment::RegisterSuite, on the pair (m_Suites, m_SuiteMap).
RegisterSuite(env, suite) ==
    [map    |-> Emplace(env.map, suite.name, Len(env.suites)),
     suites |-> Append(env.suites, suite)]

\* Environment::Environment followed by the Suite constructors, in order.
RECURSIVE RegisterAll(_)
RegisterAll(suites) ==
    IF suites = <<>> THEN [map |-> EmptyMap, suites |-> <<>>]
    ELSE RegisterSuite(RegisterAll(SubSeq(suites, 1, Len(suites) - 1)),
                       suites[Len(suites)])

\* Filter::IsOK(const Suite&) and Filter::IsOK(const Test&): a filter is the
\* set of suites and the set of tests (suite, position) it accepts.
IsOKSuite(filter, i) == i \in filter.suite
IsOKTest(filter, s, t) == <<s, t>> \in filter.test

\* Environment::AllowSuite
AllowSuite(i) == \A k \in 1..Len(m_Filter) : IsOKSuite(m_Filter[k], i)

\* ------------------------------------------------------ control policy
\* ConsoleCallback answers AbortCurrent to OnException, OnDependencyFail and
\* OnUnknownDependency and false to OnTestEnd; a user policy may answer
\* anything; the "ignoring" policy is the user policy that answers Ignore to
\* the three and false to OnTestEnd.
PolicyActions ==
    IF m_Callback = "fallback" THEN {"AbortCurrent"}
    ELSE IF m_Callback = "ignoring" THEN {"Ignore"}
    ELSE ControlAction

\* ---------------------------------------------------- Environment::Run
\* What the policy and the callables have been asked so far: the calls of
\* OnBegin and OnEnd, the kinds of answers OnUnknownDependency gave ("Ignore"
\* or "other"), the lists given to OnUnsolvableDependencies, the suites given
\* to OnSuiteBegin and OnSuiteEnd; for the suite being run the calls of
\* OnDependencyFail with its last answer, of the init and exit fixtures and of
\* OnTestBegin; for the test being run the calls of the enter fixture, the
\* body and the leave fixture, the "repeat" answers of OnTestEnd, the
\* assertions the last execution of the body recorded and how it ended.
NoSuiteCalls ==
    [depFail |-> 0, lastDepFail |-> "none", init |-> 0, exit |-> 0,
     testBegin |-> 0, lastCall |-> "none", lastAnswer |-> "none"]
NoTestCalls ==
    [enter |-> 0, body |-> 0, leave |-> 0, repeats |-> 0, lastBody |-> <<>>,
     lastFault |-> "none"]
NoCalls ==
    [onBegin |-> 0, onEnd |-> 0, unknown |-> {}, reported |-> <<>>,
     suiteBegin |-> <<>>, suiteEnd |-> <<>>, suite |-> NoSuiteCalls,
     test |-> NoTestCalls]

\* Run up to the call of SolveDependencies, and that function's prologue.
RunStart ==
    /\ pc = "idle"
    /\ UNCHANGED aggregator
    /\ m_Callback' = IF m_Callback = "null" THEN "fallback" ELSE m_Callback
    /\ envResult' = NewEnvironmentResult
    /\ performSuites' = <<>>
    /\ mark' = [i \in Indices |-> [first |-> FALSE, second |-> FALSE]]
    /\ unsolvable' = <<>>
    /\ solveI' = 0
    /\ pc' = "solve"
    /\ UNCHANGED <<registry, stack, visitResult, it, resultConnector,
                   suiteResult, procceed, depI, suiteRun, calls>>

\* A TopoVisit frame: the suite visited, the loop index j, and the suite the
\* pending recursive call was made on (dep->second).
Frame(cur) == [cur |-> cur, j |-> 0, callee |-> cur]
Top == stack[Len(stack)]
Pop == SubSeq(stack, 1, Len(stack) - 1)
SetTop(f) == [stack EXCEPT ![Len(stack)] = f]

\* SolveDependencies: one turn of the loop over m_Suites.
SolveLoop ==
    /\ pc = "solve"
    /\ UNCHANGED aggregator
    /\ IF solveI < SuiteCount
       THEN IF ~mark[solveI].first /\ AllowSuite(solveI)
            THEN /\ stack' = <<Frame(solveI)>>
                 /\ pc' = "visit_enter"
                 /\ UNCHANGED solveI
            ELSE /\ solveI' = solveI + 1
                 /\ UNCHANGED <<stack, pc>>
       ELSE /\ pc' = "on_begin"
            /\ UNCHANGED <<solveI, stack>>
    /\ UNCHANGED <<registry, m_Callback, performSuites, mark, unsolvable,
                   visitResult, runner, suiteRun, calls>>

\* TopoVisit: the two early returns and the on-stack mark.
VisitEnter ==
    /\ pc = "visit_enter"
    /\ UNCHANGED aggregator
    /\ LET cur == Top.cur IN
       IF mark[cur].second
       THEN /\ visitResult' = 1
            /\ stack' = Pop
            /\ pc' = "visit_return"
            /\ UNCHANGED mark
       ELSE IF mark[cur].first
       THEN /\ visitResult' = 0
            /\ stack' = Pop
            /\ pc' = "visit_return"
            /\ UNCHANGED mark
       ELSE /\ mark' = [mark EXCEPT ![cur].second = TRUE]
            /\ pc' = "visit_deps"
            /\ UNCHANGED <<stack, visitResult>>
    /\ UNCHANGED <<registry, m_Callback, performSuites, solveI, unsolvable,
                   runner, suiteRun, calls>>

\* What reading dep->second yields when dep == m_SuiteMap.end(): the read is
\* undefined, so any index of m_Suites or a value outside it (SuiteCount
\* stands for every such value).
EndIteratorRead == Indices \cup {SuiteCount}

\* Procceed taken for Ignore as well.
UnknownDependencyGoesOn_AlsoProcceed(action) == action \in {"Ignore", "Procceed"}

\* TopoVisit: whether the answer to OnUnknownDependency lets the visit go on.
UnknownDependencyGoesOn(action) == action = "Ignore"

\* The recursive call left out: the loop goes on to the next dependency.
CallVisit_NoRecursion(dep) ==
    /\ stack' = SetTop([Top EXCEPT !.j = Top.j + 1])
    /\ UNCHANGED <<pc, mark, performSuites, visitResult>>

\* TopoVisit: the recursive call on index dep made from the top frame.
CallVisit(dep) ==
    /\ stack' = Append(SetTop([Top EXCEPT !.callee = dep]), Frame(dep))
    /\ pc' = "visit_enter"
    /\ UNCHANGED <<mark, performSuites, visitResult>>

\* TopoVisit: return value from the top frame.
ReturnVisit(value) ==
    /\ visitResult' = value
    /\ stack' = Pop
    /\ pc' = "visit_return"

\* The suite put at the front of the order.
Place_AtFront(order, cur) == <<cur>> \o order

\* TopoVisit: result.push_back(m_Suites[cur]).
Place(order, cur) == Append(order, cur)

\* TopoVisit: one turn of the loop over the dependencies, up to the recursive
\* call, or the epilogue after the loop.
VisitDeps ==
    /\ pc = "visit_deps"
    /\ UNCHANGED aggregator
    /\ LET cur == Top.cur
           j   == Top.j
       IN
       IF j < Len(SuiteAt(cur).deps)
       THEN IF mark[cur].first
            THEN /\ stack' = SetTop([Top EXCEPT !.j = j + 1])
                 /\ UNCHANGED <<pc, mark, performSuites, visitResult, calls>>
            ELSE LET depName == SuiteAt(cur).deps[j + 1]
                     dep     == m_SuiteMap[depName]
                 IN
                 IF dep # MapEnd
                 THEN CallVisit(dep) /\ UNCHANGED calls
                 ELSE \E action \in PolicyActions :
                        /\ calls' = [calls EXCEPT !.unknown = @ \cup
                               {IF action = "Ignore" THEN "Ignore" ELSE "other"}]
                        /\ IF UnknownDependencyGoesOn(action)
                           THEN \E garbage \in EndIteratorRead :
                                  IF garbage \in Indices
                                  THEN CallVisit(garbage)
                                  ELSE /\ pc' = "crashed"
                                       /\ UNCHANGED <<stack, mark, performSuites,
                                                      visitResult>>
                           ELSE /\ ReturnVisit(2)
                                /\ UNCHANGED <<mark, performSuites>>
       ELSE /\ mark' = [mark EXCEPT ![cur] = [first |-> TRUE, second |-> FALSE]]
            /\ performSuites' = Place(performSuites, cur)
            /\ ReturnVisit(0)
            /\ UNCHANGED calls
    /\ UNCHANGED <<registry, m_Callback, solveI, unsolvable, runner, suiteRun>>

\* The push onto unsolvable left out.
CollectUnsolvable_Nothing(list, value, callee) == list

\* TopoVisit: the unsolvable list after a call on callee returned value # 0.
CollectUnsolvable(list, value, callee) ==
    IF value = 1 THEN Append(list, callee) ELSE list

\* The caller's handling of the value a TopoVisit call returned: in TopoVisit
\* (the frame below) or in SolveDependencies (no frame left).
VisitReturn ==
    /\ pc = "visit_return"
    /\ UNCHANGED aggregator
    /\ IF stack = <<>>
       THEN /\ IF visitResult = 0
               THEN /\ solveI' = solveI + 1
                    /\ pc' = "solve"
               ELSE /\ pc' = "solve_failed"
                    /\ UNCHANGED solveI
            /\ UNCHANGED <<stack, unsolvable, visitResult>>
       ELSE IF visitResult # 0
       THEN /\ unsolvable' = CollectUnsolvable(unsolvable, visitResult, Top.callee)
            /\ stack' = Pop
            /\ UNCHANGED <<pc, solveI, visitResult>>
       ELSE /\ stack' = SetTop([Top EXCEPT !.j = Top.j + 1])
            /\ pc' = "visit_deps"
            /\ UNCHANGED <<solveI, unsolvable, visitResult>>
    /\ UNCHANGED <<registry, m_Callback, performSuites, mark, runner, suiteRun,
                   calls>>

\* The fallback policy left installed.
RemoveFallback_Never == m_Callback

\* Run: the end of the function, where the fallback policy is removed.
RemoveFallback == IF m_Callback = "fallback" THEN "null" ELSE m_Callback

\* SolveDependencies after a failed visit, and the rest of Run.
SolveFailed ==
    /\ pc = "solve_failed"
    /\ UNCHANGED aggregator
    /\ performSuites' = <<>>
    /\ calls' = IF unsolvable # <<>>
                THEN [calls EXCEPT !.reported = Append(@, unsolvable)]
                ELSE calls
    /\ m_Callback' = RemoveFallback
    /\ pc' = "returned"
    /\ UNCHANGED <<registry, solver, runner, suiteRun>>

\* ------------------------------------------------ Environment::RunSuites
\* Run after a successful SolveDependencies: OnBegin, and the prologue of
\* RunSuites.
OnBegin ==
    /\ pc = "on_begin"
    /\ UNCHANGED aggregator
    /\ calls' = [calls EXCEPT !.onBegin = @ + 1]
    /\ resultConnector' = [i \in Indices |-> 0]
    /\ it' = 0
    /\ pc' = "suite_begin"
    /\ UNCHANGED <<registry, m_Callback, performSuites, solver, envResult,
                   suiteResult, procceed, depI, suiteRun>>

\* **it in RunSuites, this in Suite::Run
CurSuite == performSuites[it + 1]

\* RunSuites: the head of the loop up to the call of CheckDependencies, or the
\* return after the last suite.
SuiteBegin ==
    /\ pc = "suite_begin"
    /\ UNCHANGED aggregator
    /\ IF it < Len(performSuites)
       THEN /\ procceed' = TRUE
            /\ suiteResult' = NewSuiteResult(CurSuite)
            /\ calls' = [calls EXCEPT !.suiteBegin = Append(@, CurSuite),
                                      !.suite = NoSuiteCalls,
                                      !.test = NoTestCalls]
            /\ depI' = 0
            /\ pc' = "check_deps"
       ELSE /\ pc' = "on_end"
            /\ UNCHANGED <<procceed, suiteResult, calls, depI>>
    /\ UNCHANGED <<registry, m_Callback, performSuites, solver, it,
                   resultConnector, envResult, suiteRun>>


\* CheckDependencies: whether a dependency's outcome calls for OnDependencyFail.
DependencyFailed(total) == total # "Success"

\* AbortCurrent handled like Abort.
DependencyFailDecision_AllAbort(action, old) ==
    IF action = "Ignore" THEN [goOn |-> TRUE, procceed |-> old]
    ELSE [goOn |-> FALSE, procceed |-> FALSE]

\* Abort handled like AbortCurrent.
DependencyFailDecision_NoAbort(action, old) ==
    IF action = "Ignore" THEN [goOn |-> TRUE, procceed |-> old]
    ELSE IF action \in {"AbortCurrent", "Abort"} THEN [goOn |-> FALSE, procceed |-> TRUE]
    ELSE [goOn |-> FALSE, procceed |-> FALSE]

\* Ignore handled like AbortCurrent.
DependencyFailDecision_IgnoreSkips(action, old) ==
    IF action \in {"Ignore", "AbortCurrent"} THEN [goOn |-> FALSE, procceed |-> TRUE]
    ELSE [goOn |-> FALSE, procceed |-> FALSE]

\* CheckDependencies: the effect of the answer of OnDependencyFail; goOn tells
\* whether the loop goes on, procceed is the value of the out-parameter.
DependencyFailDecision(action, old) ==
    IF action = "Ignore" THEN [goOn |-> TRUE, procceed |-> old]
    ELSE IF action = "AbortCurrent" THEN [goOn |-> FALSE, procceed |-> TRUE]
    ELSE [goOn |-> FALSE, procceed |-> FALSE]

\* RunSuites: the branch taken when CheckDependencies returned false.
DependencyCheckFailed(sr) == SetTotalResult(sr, "Unknown")

\* What result.GetResult(resultID).GetTotalResult() yields: the total of that
\* result, or, when resultID is no index of the results (an undefined read
\* past the end of the vector), any value or a crash.
ReadTotal(resultID) ==
    IF resultID < Len(envResult.results)
    THEN {envResult.results[resultID + 1].total}
    ELSE Result \cup {"crash"}

\* CheckDependencies: one turn of the loop, or the return of true after it.
CheckDependencies ==
    /\ pc = "check_deps"
    /\ UNCHANGED aggregator
    /\ LET deps == SuiteAt(CurSuite).deps IN
       IF depI < Len(deps)
       THEN LET map      == Subscript(m_SuiteMap, deps[depI + 1])
                suiteID  == map[deps[depI + 1]]
                resultID == resultConnector[suiteID]
            IN
            /\ m_SuiteMap' = map
            /\ \E total \in ReadTotal(resultID) :
                 IF total = "crash"
                 THEN /\ pc' = "crashed"
                      /\ UNCHANGED <<depI, procceed, suiteResult, calls>>
                 ELSE IF DependencyFailed(total)
                 THEN \E action \in PolicyActions :
                        LET d == DependencyFailDecision(action, procceed) IN
                        /\ calls' = [calls EXCEPT !.suite.depFail = @ + 1,
                                                  !.suite.lastDepFail = action]
                        /\ procceed' = d.procceed
                        /\ IF d.goOn
                           THEN /\ depI' = depI + 1
                                /\ UNCHANGED <<pc, suiteResult>>
                           ELSE /\ suiteResult' = DependencyCheckFailed(suiteResult)
                                /\ pc' = "suite_end"
                                /\ UNCHANGED depI
                 ELSE /\ depI' = depI + 1
                      /\ UNCHANGED <<pc, procceed, suiteResult, calls>>
       ELSE /\ pc' = "exec_init"
            /\ UNCHANGED <<m_SuiteMap, depI, procceed, suiteResult, calls>>
    /\ UNCHANGED <<m_Suites, m_Filter, m_Callback, performSuites, solver, it,
                   resultConnector, envResult, suiteRun>>

\* RunSuites: the tail of the loop after the suite was run or skipped.
SuiteEnd ==
    /\ pc = "suite_end"
    /\ UNCHANGED aggregator
    /\ LET map      == Subscript(m_SuiteMap, SuiteAt(CurSuite).name)
           suiteID  == map[SuiteAt(CurSuite).name]
           resultID == Len(envResult.results)
       IN
       /\ m_SuiteMap' = map
       /\ resultConnector' = [resultConnector EXCEPT ![suiteID] = resultID]
    /\ calls' = [calls EXCEPT !.suiteEnd = Append(@, suiteResult.suite),
                              !.suite = NoSuiteCalls,
                              !.test = NoTestCalls]
    /\ envResult' = EnvAddResult(envResult, suiteResult)
    /\ IF ~procceed
       THEN /\ pc' = "on_end"
            /\ UNCHANGED it
       ELSE /\ it' = it + 1
            /\ pc' = "suite_begin"
    /\ UNCHANGED <<m_Suites, m_Filter, m_Callback, performSuites, solver,
                   suiteResult, procceed, depI, suiteRun>>

\* OnEnd called only when RunSuites returned true.
NotifyOnEnd_UnlessAborted(c, ran) == IF ran THEN [c EXCEPT !.onEnd = @ + 1] ELSE c

\* Run: GetControl()->OnEnd(result), whatever RunSuites returned (ran).
NotifyOnEnd(c, ran) == [c EXCEPT !.onEnd = @ + 1]

\* Run after RunSuites returned: OnEnd, and the removal of the fallback policy.
OnEnd ==
    /\ pc = "on_end"
    /\ UNCHANGED aggregator
    /\ calls' = NotifyOnEnd(calls, procceed)
    /\ m_Callback' = RemoveFallback
    /\ pc' = "returned"
    /\ UNCHANGED <<registry, performSuites, solver, runner, suiteRun>>

\* ------------------------------------------------------------ Suite::Run
\* What a call of an externally supplied callable of suite s does: it returns
\* ("none"), or it throws and OnException answers with an action.
Faults(s) == {"none"} \cup (IF SuiteAt(s).throws THEN PolicyActions ELSE {})

\* Suite::Run: the local procceed, declared without an initializer; it is read
\* only after ExecFunction or Test::Run assigned it.
LocalProcceed == "uninitialized"

\* AbortCurrent handled like Abort.
ExecFunctionCatch_AlwaysAborts(action, old) ==
    IF action \in {"Ignore", "Procceed"} THEN [ret |-> TRUE, procceed |-> old]
    ELSE [ret |-> FALSE, procceed |-> FALSE]

\* Every answer but Ignore and Procceed handled like AbortCurrent.
ExecFunctionCatch_NeverAborts(action, old) ==
    IF action \in {"Ignore", "Procceed"} THEN [ret |-> TRUE, procceed |-> old]
    ELSE [ret |-> FALSE, procceed |-> TRUE]

\* Ignore handled like AbortCurrent.
ExecFunctionCatch_IgnoreEnds(action, old) ==
    IF action = "Procceed" THEN [ret |-> TRUE, procceed |-> old]
    ELSE IF action \in {"AbortCurrent", "Ignore"} THEN [ret |-> FALSE, procceed |-> TRUE]
    ELSE [ret |-> FALSE, procceed |-> FALSE]

\* Suite::ExecFunction: the catch block. ret is the value returned, procceed
\* the value of the out-parameter (old when it is not assigned).
ExecFunctionCatch(action, old) ==
    IF action \in {"Ignore", "Procceed"} THEN [ret |-> TRUE, procceed |-> old]
    ELSE IF action = "AbortCurrent" THEN [ret |-> FALSE, procceed |-> TRUE]
    ELSE [ret |-> FALSE, procceed |-> FALSE]

\* False returned also when the callable completed normally.
ExecFunction_ReturnsFalse(fault, old) == [ret |-> FALSE, procceed |-> TRUE]

\* Suite::ExecFunction
ExecFunction(fault, old) ==
    IF fault = "none" THEN [ret |-> TRUE, procceed |-> old]
    ELSE ExecFunctionCatch(fault, old)

\* RunSuites: what the value Suite::Run returned does to procceed.
AfterSuiteRun(ret, old) == IF ~ret THEN FALSE ELSE old

\* RunSuites returns as soon as Suite::Run returned false, before OnSuiteEnd.
SuiteRunReturns_BeforeSuiteEnd(ret) ==
    /\ procceed' = AfterSuiteRun(ret, procceed)
    /\ pc' = IF ret THEN "suite_end" ELSE "on_end"

\* Suite::Run returns ret to RunSuites.
SuiteRunReturns(ret) ==
    /\ procceed' = AfterSuiteRun(ret, procceed)
    /\ pc' = "suite_end"

\* Suite::Run: a fixture was called through ExecFunction with outcome e; on
\* false Suite::Run returns the out-parameter, else it goes on at next.
AfterFixture(e, next) ==
    IF ~e.ret
    THEN SuiteRunReturns(e.procceed)
    ELSE /\ pc' = next
         /\ UNCHANGED procceed

\* Suite::Run: the init fixture.
ExecInit ==
    /\ pc = "exec_init"
    /\ UNCHANGED aggregator
    /\ testIt' = 0
    /\ \E fault \in Faults(CurSuite) :
         /\ calls' = [calls EXCEPT !.suite.init = @ + 1,
                                   !.suite.lastCall = "init",
                                   !.suite.lastAnswer = fault]
         /\ AfterFixture(ExecFunction(fault, LocalProcceed), "test_begin")
    /\ UNCHANGED <<registry, m_Callback, performSuites, solver, it,
                   resultConnector, envResult, suiteResult, depI, testResult>>

\* Suite::Run: the head of the loop over m_Tests with OnTestBegin, or the
\* end of the loop.
TestBegin ==
    /\ pc = "test_begin"
    /\ UNCHANGED aggregator
    /\ IF testIt < SuiteAt(CurSuite).ntests
       THEN /\ calls' = [calls EXCEPT !.suite.testBegin = @ + 1,
                                      !.test = NoTestCalls]
            /\ testResult' = NewTestResult(CurSuite, testIt)
            /\ pc' = "exec_enter"
       ELSE /\ pc' = "exec_exit"
            /\ UNCHANGED <<calls, testResult>>
    /\ UNCHANGED <<registry, m_Callback, performSuites, solver, runner, testIt>>

\* The test result of the attempt before kept.
AttemptResult_Keep(old, s, t) == old

\* Suite::Run: the assignment at the head of the do-loop.
AttemptResult(old, s, t) == NewTestResult(s, t)

\* Suite::Run: the head of the do-loop: a fresh TestResult and the enter
\* fixture.
ExecEnter ==
    /\ pc = "exec_enter"
    /\ UNCHANGED aggregator
    /\ testResult' = AttemptResult(testResult, CurSuite, testIt)
    /\ \E fault \in Faults(CurSuite) :
         /\ calls' = [calls EXCEPT !.test.enter = @ + 1,
                                   !.suite.lastCall = "enter",
                                   !.suite.lastAnswer = fault]
         /\ AfterFixture(ExecFunction(fault, LocalProcceed), "test_body")
    /\ UNCHANGED <<registry, m_Callback, performSuites, solver, it,
                   resultConnector, envResult, suiteResult, depI, testIt>>

\* The assertions one execution of a test body can record before it returns
\* or throws: each is the boolean given to TestContext::AddResult.
BodyRuns == UNION {[1..n -> BOOLEAN] : n \in 0..MaxAsserts}

\* The body's UNIT_ASSERT calls, in order, on the test result.
RECURSIVE RecordAsserts(_, _)
RecordAsserts(tr, oks) ==
    IF oks = <<>> THEN tr
    ELSE RecordAsserts(ContextAddResult(tr, Head(oks), "assert"), Tail(oks))

\* Ignore handled like Procceed: the synthetic assertion is added for both.
TestRunCatch_IgnoreAdds(tr, action) ==
    IF action = "Abort" THEN [ret |-> FALSE, result |-> tr]
    ELSE IF action = "AbortCurrent" THEN [ret |-> TRUE, result |-> tr]
    ELSE IF action \in {"Procceed", "Ignore"}
    THEN [ret |-> TRUE,
          result |-> TestAddResult(tr, AssertResult(TestInfo(tr.suite, tr.test),
                                                    "Fail", ExceptionMessage))]
    ELSE [ret |-> TRUE, result |-> tr]

\* Procceed handled like Ignore: nothing is added to the test result.
TestRunCatch_NothingAdded(tr, action) ==
    IF action = "Abort" THEN [ret |-> FALSE, result |-> tr]
    ELSE [ret |-> TRUE, result |-> tr]

\* AbortCurrent handled like Abort: false is returned.
TestRunCatch_AbortCurrentEnds(tr, action) ==
    IF action \in {"Abort", "AbortCurrent"} THEN [ret |-> FALSE, result |-> tr]
    ELSE IF action = "Procceed"
    THEN [ret |-> TRUE,
          result |-> TestAddResult(tr, AssertResult(TestInfo(tr.suite, tr.test),
                                                    "Fail", ExceptionMessage))]
    ELSE [ret |-> TRUE, result |-> tr]

\* Test::Run: the catch block. ret is the value returned.
TestRunCatch(tr, action) ==
    IF action = "Abort" THEN [ret |-> FALSE, result |-> tr]
    ELSE IF action = "AbortCurrent" THEN [ret |-> TRUE, result |-> tr]
    ELSE IF action = "Procceed"
    THEN [ret |-> TRUE,
          result |-> TestAddResult(tr, AssertResult(TestInfo(tr.suite, tr.test),
                                                    "Fail", ExceptionMessage))]
    ELSE [ret |-> TRUE, result |-> tr]

\* Test::Run
TestRun(tr, oks, fault) ==
    IF fault = "none" THEN [ret |-> TRUE, result |-> RecordAsserts(tr, oks)]
    ELSE TestRunCatch(RecordAsserts(tr, oks), fault)

\* Suite::Run: the test body.
TestBody ==
    /\ pc = "test_body"
    /\ UNCHANGED aggregator
    /\ \E oks \in BodyRuns, fault \in Faults(CurSuite) :
         LET r == TestRun(testResult, oks, fault) IN
         /\ calls' = [calls EXCEPT !.test.body = @ + 1, !.test.lastBody = oks,
                                   !.test.lastFault = fault,
                                   !.suite.lastCall = "body",
                                   !.suite.lastAnswer = fault]
         /\ testResult' = r.result
         /\ IF ~r.ret
            THEN SuiteRunReturns(r.ret)
            ELSE /\ pc' = "exec_leave"
                 /\ UNCHANGED procceed
    /\ UNCHANGED <<registry, m_Callback, performSuites, solver, it,
                   resultConnector, envResult, suiteResult, depI, testIt>>

\* Suite::Run: the leave fixture.
ExecLeave ==
    /\ pc = "exec_leave"
    /\ UNCHANGED aggregator
    /\ \E fault \in Faults(CurSuite) :
         /\ calls' = [calls EXCEPT !.test.leave = @ + 1,
                                   !.suite.lastCall = "leave",
                                   !.suite.lastAnswer = fault]
         /\ AfterFixture(ExecFunction(fault, LocalProcceed), "test_end")
    /\ UNCHANGED <<registry, m_Callback, performSuites, solver, it,
                   resultConnector, envResult, suiteResult, depI, suiteRun>>

\* The answers OnTestEnd can give: ConsoleCallback and the "ignoring" policy
\* answer false; a user policy answers "repeat" at most MaxRepeats times for
\* one test.
TestEndAnswers ==
    IF m_Callback = "user" /\ calls.test.repeats < MaxRepeats
    THEN BOOLEAN ELSE {FALSE}

\* Suite::Run: the condition of the do-loop, and the tail of the loop over
\* m_Tests.
TestEnd ==
    /\ pc = "test_end"
    /\ UNCHANGED aggregator
    /\ \E repeat \in TestEndAnswers :
         IF repeat
         THEN /\ calls' = [calls EXCEPT !.test.repeats = @ + 1]
              /\ pc' = "exec_enter"
              /\ UNCHANGED <<suiteResult, testIt>>
         ELSE /\ suiteResult' = SuiteAddResult(suiteResult, testResult)
              /\ testIt' = testIt + 1
              /\ UNCHANGED calls
              /\ pc' = "test_begin"
    /\ UNCHANGED <<registry, m_Callback, performSuites, solver, it,
                   resultConnector, envResult, procceed, depI, testResult>>

\* Suite::Run: the exit fixture and the return.
ExecExit ==
    /\ pc = "exec_exit"
    /\ UNCHANGED aggregator
    /\ \E fault \in Faults(CurSuite) :
         LET e == ExecFunction(fault, LocalProcceed) IN
         /\ calls' = [calls EXCEPT !.suite.exit = @ + 1,
                                   !.suite.lastCall = "exit",
                                   !.suite.lastAnswer = fault]
         /\ IF ~e.ret THEN SuiteRunReturns(e.procceed) ELSE SuiteRunReturns(TRUE)
    /\ UNCHANGED <<registry, m_Callback, performSuites, solver, it,
                   resultConnector, envResult, suiteResult, depI, suiteRun>>

\* -------------------------------------------------------- specification
\* A registered suite: its name, its dependency names, the number of its
\* tests, and whether its callables (fixtures and test bodies) can throw.
RECURSIVE SumLen(_, _)
SumLen(f, n) == IF n = 0 THEN 0 ELSE Len(f[n]) + SumLen(f, n - 1)

\* The dependency lists of n suites over the given names.
DepLists(names) == UNION {[1..k -> names] : k \in 0..MaxDeps}
Dependencies(n, names) ==
    {d \in [1..n -> DepLists(names)] : SumLen(d, n) <= MaxEdges}

\* Namings up to renaming: the first suite takes the first name, and a suite
\* either reuses an earlier name or takes the next fresh one; at most `names`
\* different names are used.
Namings(n, names) ==
    {f \in [1..n -> 1..names] :
        \A k \in 1..n : \A v \in 1..(f[k] - 1) : \E h \in 1..(k - 1) : f[h] = v}

\* Resolver runs: up to MaxSuites suites under distinct names with any
\* dependency names; the first suite has one test, the others none, and no
\* callable throws.
ResolverRegistrations ==
    UNION {
      { [k \in 1..n |-> [name |-> NameSeq[k], deps |-> deps[k],
                         ntests |-> IF k = 1 THEN 1 ELSE 0, throws |-> FALSE]] :
           deps \in Dependencies(n, DepNames) }
      : n \in 1..MaxSuites }

\* Naming runs: up to MaxNamedSuites suites under at most MaxNames names
\* (several suites can share a name), each with at most one dependency name;
\* the first suite has one test, the others none, and no callable throws.
SharedNames == {NameSeq[k] : k \in 1..MaxNames}
NamedRegistrations ==
    UNION {
      { [k \in 1..n |-> [name |-> NameSeq[naming[k]], deps |-> deps[k],
                         ntests |-> IF k = 1 THEN 1 ELSE 0, throws |-> FALSE]] :
           naming \in Namings(n, MaxNames),
           deps \in {d \in Dependencies(n, SharedNames) :
                        \A k \in 1..n : Len(d[k]) <= 1} }
      : n \in 1..MaxNamedSuites }

\* Scheduler runs: up to MaxRunSuites suites under distinct names with any
\* dependency names, any number of tests up to MaxTests, and up to
\* MaxThrowers suites whose callables can throw.
RunNames == {NameSeq[k] : k \in 1..MaxRunSuites} \cup {GhostName}
SchedulerRegistrations ==
    UNION {
      { [k \in 1..n |-> [name |-> NameSeq[k], deps |-> deps[k],
                         ntests |-> tests[k], throws |-> k \in throwers]] :
           deps \in Dependencies(n, RunNames),
           tests \in [1..n -> 0..MaxTests],
           throwers \in {t \in SUBSET (1..n) : Cardinality(t) <= MaxThrowers} }
      : n \in 1..MaxRunSuites }

\* Termination runs: the scheduler runs in which a suite declares at most one
\* dependency name and has at most one test.
TerminationRegistrations ==
    {suites \in SchedulerRegistrations :
        \A k \in 1..Len(suites) :
            Len(suites[k].deps) <= 1 /\ suites[k].ntests <= 1}

\* Shared-name scheduler runs: up to MaxSuites suites under at most MaxNames
\* names (several suites can share a name), each with at most one dependency
\* name; the callables of the first suite can throw and it has no test, the
\* second suite has one test, the others none.
SharedFaultRegistrations ==
    UNION {
      { [k \in 1..n |-> [name |-> NameSeq[naming[k]], deps |-> deps[k],
                         ntests |-> IF k = 2 THEN 1 ELSE 0, throws |-> k = 1]] :
           naming \in Namings(n, MaxNames),
           deps \in {d \in Dependencies(n, SharedNames) :
                        \A k \in 1..n : Len(d[k]) <= 1} }
      : n \in 1..MaxSuites }

\* The filter chains: none, or one filter accepting any set of the suites and
\* every test, or one filter accepting every suite and every test but the
\* first test of the first suite.
SuiteIds == 0 .. (IF MaxSuites > MaxNamedSuites THEN MaxSuites ELSE MaxNamedSuites) - 1
TestIds == SuiteIds \X (0 .. MaxTests - 1)
FilterChains(n) ==
    {<<>>}
    \cup {<<[suite |-> f, test |-> TestIds]>> : f \in SUBSET (0 .. n - 1)}
    \cup {<<[suite |-> SuiteIds, test |-> TestIds \ {<<0, 0>>}]>>}

\* The state when Run is called: registration is complete, nothing ran.
InitOf(registrations, filters, callbacks) ==
    /\ \E suites \in registrations :
         LET env == RegisterAll(suites) IN
         /\ m_Suites = env.suites
         /\ m_SuiteMap = env.map
         /\ m_Filter \in filters \cap FilterChains(Len(suites))
    /\ m_Callback \in callbacks
    /\ pc = "idle"
    /\ performSuites = <<>>
    /\ solveI = 0
    /\ mark = <<>>
    /\ unsolvable = <<>>
    /\ stack = <<>>
    /\ visitResult = 0
    /\ it = 0
    /\ resultConnector = <<>>
    /\ envResult = NewEnvironmentResult
    /\ suiteResult = NewSuiteResult(0)
    /\ procceed = TRUE
    /\ depI = 0
    /\ testIt = 0
    /\ testResult = NewTestResult(0, 0)
    /\ calls = NoCalls
    /\ fed = <<>>
    /\ aggregate = NewResultObject
    /\ aggregateOld = "Success"

Init == InitOf(SchedulerRegistrations, {<<>>}, {"null", "user"})

InitResolve == InitOf(ResolverRegistrations, FilterChains(MaxSuites), {"user"})

InitNames == InitOf(NamedRegistrations, FilterChains(MaxNamedSuites), {"user"})

InitIgnore == InitOf(SchedulerRegistrations, FilterChains(MaxRunSuites), {"ignoring"})

InitLive == InitOf(TerminationRegistrations, {<<>>}, {"user"})

InitShared == InitOf(SharedFaultRegistrations, {<<>>}, {"user"})

Next ==
    \/ RunStart
    \/ SolveLoop
    \/ VisitEnter
    \/ VisitDeps
    \/ VisitReturn
    \/ SolveFailed
    \/ OnBegin
    \/ SuiteBegin
    \/ CheckDependencies
    \/ ExecInit
    \/ TestBegin
    \/ ExecEnter
    \/ TestBody
    \/ ExecLeave
    \/ TestEnd
    \/ ExecExit
    \/ SuiteEnd
    \/ OnEnd

\* A fresh aggregator of either revision is given one more outcome.
Feed ==
    /\ Len(fed) < MaxFeed
    /\ \E result \in Result :
         /\ fed' = Append(fed, result)
         /\ aggregate' = AddResult(aggregate, result)
         /\ aggregateOld' = AddResultOld(aggregateOld, result)
    /\ UNCHANGED <<registry, m_Callback, pc, performSuites, solver, runner,
                   suiteRun, calls>>

InitAgg == InitOf({<<>>}, {<<>>}, {"null"})

NextAgg == Feed

\* The scheduler on few suites of every kind.
Spec == Init /\ [][Next]_vars

\* The resolver on every small dependency graph, with plain suites.
SpecResolve == InitResolve /\ [][Next]_vars

\* A stand-alone aggregator fed up to MaxFeed outcomes.
SpecAgg == InitAgg /\ [][NextAgg]_vars

\* The resolver and the scheduler on suites that share names.
SpecNames == InitNames /\ [][Next]_vars

\* The scheduler under the policy that ignores every fault and failure.
SpecIgnore == InitIgnore /\ [][Next]_vars

\* The scheduler on suites that share names, one of which can throw.
SpecShared == InitShared /\ [][Next]_vars

\* Run is one thread of control: as long as the callables and the callbacks
\* return, it takes its next step.
Fairness == WF_vars(Next)

\* The scheduler on the termination runs, with every call returning.
SpecLive == InitLive /\ [][Next]_vars /\ Fairness

\* ------------------------------------------- the earlier revision
\* Run, RunSuites and Suite::Run of the earlier revision of the file, on
\* suites that declare no dependency, under a policy whose OnTestEnd answers
\* false: SolveDependencies then yields the admitted suites in registration
\* order, and CheckDependencies, whose loop has no turn, returns true.

\* TestResult::AddResult and SuiteResult::AddResult of the earlier revision:
\* the total after a part with total r was added.
OldAddResult(total, r) ==
    IF total \in {"Success", "Unknown"} /\ r \in {"Unknown", "Fail"}
    THEN r ELSE total

\* SuiteResult::SuiteResult
OldSuiteResult(s) == [suite |-> s, total |-> "Success", results |-> <<>>]

\* SuiteResult::AddResult
OldSuiteAddResult(sr, tr) ==
    [sr EXCEPT !.results = Append(@, tr), !.total = OldAddResult(@, tr.total)]

\* EnvironmentResult::AddResult: the earlier revision keeps no total.
OldEnvAddResult(er, sr) == [er EXCEPT !.results = Append(@, sr)]

\* Suite::ExecFunction
OldExecFunction(fault, old) ==
    IF fault \in {"none", "Ignore", "Procceed"} THEN [ret |-> TRUE, procceed |-> old]
    ELSE IF fault = "AbortCurrent" THEN [ret |-> FALSE, procceed |-> TRUE]
    ELSE [ret |-> FALSE, procceed |-> FALSE]

\* Test::Run: the value returned when the body ended with the given fault.
OldTestRun(fault) == fault # "Abort"

\* Test::Run: the outcome of test t of suite s after a body that ended with
\* the given fault; failed tells whether an assertion of the body failed.
OldTestOutcome(s, t, fault, failed) ==
    [suite |-> s, test |-> t,
     total |-> IF failed \/ fault = "Procceed" THEN "Fail" ELSE "Success"]

\* What the callables of one call of Suite::Run on suite s do: how the init
\* and exit fixtures end, and for each test how the enter fixture, the body
\* and the leave fixture end and whether an assertion of the body fails.
OldScripts(s) ==
    [init : Faults(s), exit : Faults(s),
     tests : [1..SuiteAt(s).ntests ->
                [enter : Faults(s), body : Faults(s), failed : BOOLEAN,
                 leave : Faults(s)]]]

\* Suite::Run from test t on, sr being the suite outcome so far: the value
\* returned, the suite outcome, and the last callable called with how it
\* ended.
RECURSIVE OldSuiteRunFrom(_, _, _, _)
OldSuiteRunFrom(s, script, t, sr) ==
    IF t = SuiteAt(s).ntests
    THEN LET e == OldExecFunction(script.exit, LocalProcceed) IN
         [ret |-> IF ~e.ret THEN e.procceed ELSE TRUE, result |-> sr,
          lastCall |-> "exit", lastAnswer |-> script.exit]
    ELSE LET a     == script.tests[t + 1]
             enter == OldExecFunction(a.enter, LocalProcceed)
             body  == OldTestRun(a.body)
             leave == OldExecFunction(a.leave, body)
         IN
         IF ~enter.ret
         THEN [ret |-> enter.procceed, result |-> sr,
               lastCall |-> "enter", lastAnswer |-> a.enter]
         ELSE IF ~body
         THEN [ret |-> body, result |-> sr,
               lastCall |-> "body", lastAnswer |-> a.body]
         ELSE IF ~leave.ret
         THEN [ret |-> leave.procceed, result |-> sr,
               lastCall |-> "leave", lastAnswer |-> a.leave]
         ELSE OldSuiteRunFrom(s, script, t + 1,
                  OldSuiteAddResult(sr, OldTestOutcome(s, t, a.body, a.failed)))

\* Suite::Run
OldSuiteRun(s, script) ==
    LET e == OldExecFunction(script.init, LocalProcceed) IN
    IF ~e.ret
    THEN [ret |-> e.procceed, result |-> OldSuiteResult(s),
          lastCall |-> "init", lastAnswer |-> script.init]
    ELSE OldSuiteRunFrom(s, script, 0, OldSuiteResult(s))

\* RunSuites: the name abort in "if(!abort)". Neither the file nor its header
\* declares it, so it is the C library function, whose address converts to
\* true.
OldAbort == TRUE

\* RunSuites: procceed after "bool succe = (*it)->Run(suiteResult);
\* if(!abort) procceed = false;".
OldAfterSuiteRun(succe, old) == IF ~OldAbort THEN FALSE ELSE old

\* SolveDependencies on suites without dependencies: TopoVisit appends each
\* admitted suite when the loop over m_Suites comes to it.
OldSolveDependencies ==
    SelectSeq([k \in 1..SuiteCount |-> k - 1], AllowSuite)

\* Run up to the call of RunSuites: the fallback policy, SolveDependencies,
\* which succeeds, and OnBegin.
OldRunStart ==
    /\ pc = "old_idle"
    /\ m_Callback' = IF m_Callback = "null" THEN "fallback" ELSE m_Callback
    /\ envResult' = [results |-> <<>>]
    /\ performSuites' = OldSolveDependencies
    /\ calls' = [calls EXCEPT !.onBegin = @ + 1]
    /\ it' = 0
    /\ pc' = "old_run_suites"
    /\ UNCHANGED <<registry, solver, resultConnector, suiteResult, procceed,
                   depI, suiteRun, aggregator>>

\* RunSuites: one turn of the loop.
OldRunSuitesTurn ==
    /\ pc = "old_run_suites"
    /\ it < Len(performSuites)
    /\ \E script \in OldScripts(CurSuite) :
         LET run  == OldSuiteRun(CurSuite, script)
             stay == OldAfterSuiteRun(run.ret, TRUE)
         IN
         /\ suiteResult' = run.result
         /\ envResult' = OldEnvAddResult(envResult, run.result)
         /\ procceed' = stay
         /\ calls' = [calls EXCEPT !.suiteBegin = Append(@, CurSuite),
                                   !.suiteEnd = Append(@, CurSuite),
                                   !.suite.lastCall = run.lastCall,
                                   !.suite.lastAnswer = run.lastAnswer]
         /\ IF ~stay
            THEN /\ pc' = "old_on_end"
                 /\ UNCHANGED it
            ELSE /\ it' = it + 1
                 /\ UNCHANGED pc
    /\ UNCHANGED <<registry, m_Callback, performSuites, solver,
                   resultConnector, depI, suiteRun, aggregator>>

\* RunSuites: the loop ended; true is returned.
OldRunSuitesReturn ==
    /\ pc = "old_run_suites"
    /\ it = Len(performSuites)
    /\ pc' = "old_on_end"
    /\ UNCHANGED <<registry, m_Callback, performSuites, solver, runner,
                   suiteRun, calls, aggregator>>

\* Run after RunSuites: OnEnd, and the fallback policy removed.
OldOnEnd ==
    /\ pc = "old_on_end"
    /\ calls' = [calls EXCEPT !.onEnd = @ + 1]
    /\ m_Callback' = RemoveFallback
    /\ pc' = "old_returned"
    /\ UNCHANGED <<registry, performSuites, solver, runner, suiteRun,
                   aggregator>>

\* Runs of the earlier revision: up to MaxSuites suites under distinct names
\* without dependencies, each with at most one test, and up to MaxThrowers
\* suites whose callables can throw.
OldRegistrations ==
    UNION {
      { [k \in 1..n |-> [name |-> NameSeq[k], deps |-> <<>>,
                         ntests |-> tests[k], throws |-> k \in throwers]] :
           tests \in [1..n -> 0..1],
           throwers \in {t \in SUBSET (1..n) : Cardinality(t) <= MaxThrowers} }
      : n \in 1..MaxSuites }

\* The state when Run of the earlier revision is called.
InitOld ==
    /\ \E suites \in OldRegistrations :
         LET env == RegisterAll(suites) IN
         /\ m_Suites = env.suites
         /\ m_SuiteMap = env.map
         /\ m_Filter \in FilterChains(Len(suites))
    /\ m_Callback = "user"
    /\ pc = "old_idle"
    /\ performSuites = <<>>
    /\ solveI = 0
    /\ mark = <<>>
    /\ unsolvable = <<>>
    /\ stack = <<>>
    /\ visitResult = 0
    /\ it = 0
    /\ resultConnector = <<>>
    /\ envResult = [results |-> <<>>]
    /\ suiteResult = OldSuiteResult(0)
    /\ procceed = TRUE
    /\ depI = 0
    /\ testIt = 0
    /\ testResult = NewTestResult(0, 0)
    /\ calls = NoCalls
    /\ fed = <<>>
    /\ aggregate = NewResultObject
    /\ aggregateOld = "Success"

NextOld ==
    \/ OldRunStart
    \/ OldRunSuitesTurn
    \/ OldRunSuitesReturn
    \/ OldOnEnd

\* The scheduler of the earlier revision.
SpecOld == InitOld /\ [][NextOld]_vars

\* ================================================================ claims
\* ---------------------------------------------- notions the claims use
\* Severity of an outcome: Fail > Unknown > Success.
Severity(r) == IF r = "Fail" THEN 2 ELSE IF r = "Unknown" THEN 1 ELSE 0

\* The maximum-severity outcome of a sequence (Success when it is empty).
MaxSeverity(seq) ==
    IF \E k \in 1..Len(seq) : seq[k] = "Fail" THEN "Fail"
    ELSE IF \E k \in 1..Len(seq) : seq[k] = "Unknown" THEN "Unknown"
    ELSE "Success"

\* A fresh aggregator after AddResult on each element of seq, in order.
RECURSIVE FoldResults(_)
FoldResults(seq) ==
    IF seq = <<>> THEN NewResultObject
    ELSE AddResult(FoldResults(SubSeq(seq, 1, Len(seq) - 1)), seq[Len(seq)])

\* The sequences that are permutations of seq.
PermutationsOf(seq) ==
    {[k \in 1..Len(seq) |-> seq[p[k]]] : p \in Permutations(1..Len(seq))}

\* C1: for every sequence of outcomes fed one by one to AddResult on a fresh
\* aggregator, the total afterwards is the maximum-severity element of the
\* sequence (Fail > Unknown > Success, Success when empty), for the
\* aggregator of either revision, and every permutation of the sequence
\* gives the same total.
C1_AggregateIsMaxSeverity ==
    /\ aggregate = MaxSeverity(fed)
    /\ aggregateOld = MaxSeverity(fed)
    /\ \A q \in PermutationsOf(fed) : FoldResults(q) = aggregate

\* C1 witness: Unknown was fed after Fail, and all three outcomes were fed.
C1_Witness ==
    /\ Len(fed) = MaxFeed
    /\ \E k \in 1..(Len(fed) - 1) : fed[k] = "Fail" /\ fed[k + 1] = "Unknown"
    /\ {fed[k] : k \in 1..Len(fed)} = Result
    /\ aggregate = "Fail"

\* The name -> index map as registration left it.
Registered == RegisterAll(m_Suites).map

\* The suites the dependency names of suite i resolve to.
DepsOf(i) ==
    {Registered[SuiteAt(i).deps[k]] : k \in 1..Len(SuiteAt(i).deps)} \ {MapEnd}

\* Every declared dependency name is the name of a registered suite.
AllNamesExist ==
    \A i \in Indices : \A k \in 1..Len(SuiteAt(i).deps) :
        Registered[SuiteAt(i).deps[k]] # MapEnd

\* The suites reachable from the set S through dependency edges, S included.
RECURSIVE Closure(_)
Closure(S) ==
    LET T == S \cup UNION {DepsOf(i) : i \in S}
    IN IF T = S THEN S ELSE Closure(T)

\* Suite i (transitively) depends on suite j.
DependsOn(i, j) == j \in Closure(DepsOf(i))

\* The position of suite i in the resolved order (0 when it is not in it).
Position(i) ==
    IF \E k \in 1..Len(performSuites) : performSuites[k] = i
    THEN CHOOSE k \in 1..Len(performSuites) : performSuites[k] = i
    ELSE 0

\* SolveDependencies returned true: Run is at or past OnBegin.
Resolved ==
    pc \in {"on_begin", "suite_begin", "check_deps", "exec_init", "test_begin",
            "exec_enter", "test_body", "exec_leave", "test_end", "exec_exit",
            "suite_end", "on_end"}
    \/ (pc = "returned" /\ calls.onBegin = 1)

\* CheckDependencies is about to read the outcome of the dependency depI of
\* the suite being run.
AtDependencyRead ==
    pc = "check_deps" /\ depI < Len(SuiteAt(CurSuite).deps)

\* The suite that dependency resolves to.
DependencyRead == Registered[SuiteAt(CurSuite).deps[depI + 1]]

\* C2: when all dependency names exist and SolveDependencies succeeds, every
\* suite B that a suite A of the resolved order declares a dependency on is
\* placed before A in the order; and when CheckDependencies of A reads the
\* outcome of B, the suite outcome of B has been given to OnSuiteEnd and
\* appended to the environment outcome.
C2_DependenciesFirst ==
    AllNamesExist =>
      /\ Resolved =>
            \A a \in Indices : \A b \in DepsOf(a) :
                Position(a) # 0 => (Position(b) # 0 /\ Position(b) < Position(a))
      /\ AtDependencyRead =>
            /\ \E k \in 1..Len(envResult.results) :
                   envResult.results[k].suite = DependencyRead
            /\ \E k \in 1..Len(calls.suiteEnd) :
                   calls.suiteEnd[k] = DependencyRead

\* C2 witness: in an order of MaxSuites suites, the dependency check of a
\* suite reads the recorded outcome of a suite that was registered after it.
C2_Witness ==
    /\ AllNamesExist
    /\ AtDependencyRead
    /\ DependencyRead > CurSuite
    /\ Len(performSuites) = MaxSuites
    /\ \E k \in 1..Len(envResult.results) :
          envResult.results[k].suite = DependencyRead

\* A dependency cycle can be reached from a suite the filter chain admits.
CycleReachable ==
    \E r \in Indices :
        /\ AllowSuite(r)
        /\ \E x \in Closure({r}) : DependsOn(x, x)

\* The only dependencies declared are those of x on y and of y on x.
MutualPair(x, y) ==
    /\ x # y
    /\ DepsOf(x) = {y}
    /\ DepsOf(y) = {x}
    /\ \A i \in Indices \ {x, y} : SuiteAt(i).deps = <<>>

\* Resolution failed on a cycle: no resolved order, one report, nothing run.
CycleOutcome ==
    /\ ~Resolved
    /\ pc # "crashed"
    /\ calls.onBegin = 0
    /\ calls.onEnd = 0
    /\ calls.suiteBegin = <<>>
    /\ envResult.results = <<>>
    /\ Len(calls.reported) <= 1
    /\ pc = "returned" =>
          /\ performSuites = <<>>
          /\ Len(calls.reported) = 1
          /\ \A x, y \in Indices :
                MutualPair(x, y) =>
                    /\ Len(calls.reported[1]) = 2
                    /\ {calls.reported[1][k] : k \in 1..2} = {x, y}

\* C3 as stated: whenever a dependency cycle can be reached from an admitted
\* suite, SolveDependencies fails with an empty order, OnUnsolvableDependencies
\* is called exactly once, no suite is run and neither OnBegin nor OnEnd is
\* called; for the mutual dependency of two suites the list holds exactly the
\* two.
C3_AsStated == CycleReachable => CycleOutcome

\* C3, amended: the same, when every declared dependency name is the name of
\* a registered suite (an unknown name met before the cycle closes ends
\* resolution without a report); the list of a mutual dependency holds
\* exactly the two suites when they declare the only dependencies.
C3_CycleFailsResolution == (AllNamesExist /\ CycleReachable) => CycleOutcome

\* C3 witness: Run returned after reporting the two suites of a mutual
\* dependency, having placed another suite before it met the cycle.
C3_Witness ==
    /\ pc = "returned"
    /\ AllNamesExist
    /\ \E x, y \in Indices : MutualPair(x, y)
    /\ \E i \in Indices : mark[i].first
    /\ Len(calls.reported) = 1
    /\ performSuites = <<>>

\* C4: once OnUnknownDependency gave an answer other than Ignore, resolution
\* only unwinds and fails: TopoVisit returns 2, the unsolvable list is empty
\* and OnUnsolvableDependencies is not called, the resolved order ends empty
\* and Run calls none of OnBegin, OnSuiteBegin and OnEnd.
C4_UnknownDependencyAborts ==
    "other" \in calls.unknown =>
        /\ pc \in {"visit_return", "solve_failed", "returned"}
        /\ visitResult = 2
        /\ unsolvable = <<>>
        /\ calls.reported = <<>>
        /\ calls.onBegin = 0
        /\ calls.onEnd = 0
        /\ calls.suiteBegin = <<>>
        /\ envResult.results = <<>>
        /\ pc = "returned" => performSuites = <<>>

\* C4 witness: Run returned after such an answer, given for a suite that was
\* reached after another suite had already been placed.
C4_Witness ==
    /\ pc = "returned"
    /\ calls.unknown = {"other"}
    /\ \E i \in Indices : mark[i].first
    /\ \E i \in Indices : mark[i].second
    /\ performSuites = <<>>

\* TopoVisit is at a dependency name that is no key of the map.
AtUnknownDependency ==
    /\ pc = "visit_deps"
    /\ Top.j < Len(SuiteAt(Top.cur).deps)
    /\ ~mark[Top.cur].first
    /\ m_SuiteMap[SuiteAt(Top.cur).deps[Top.j + 1]] = MapEnd

\* C5: when OnUnknownDependency answers Ignore, the resolver skips that one
\* edge and goes on with the next dependency of the same suite: no suite is
\* visited for the unknown name and the visit of the suite continues.
C5_IgnoreSkipsEdge ==
    [][(AtUnknownDependency /\ "Ignore" \in calls'.unknown /\ pc' # "visit_return")
          => /\ pc' = "visit_deps"
             /\ stack' = SetTop([Top EXCEPT !.j = Top.j + 1])
             /\ mark' = mark
             /\ performSuites' = performSuites]_vars

\* The environment outcome holds the outcome suite i produced in this run.
Produced(i) == {k \in 1..Len(envResult.results) : envResult.results[k].suite = i}

\* RunSuites came to the end of the resolved order without an abort.
RanAll == pc = "on_end" /\ procceed /\ it = Len(performSuites)

\* C6: when suite d is rejected by the filter chain and an admitted suite e
\* depends on d, directly or through other suites, a resolved order holds
\* both with d before e, a run that is not aborted begins and ends both, and
\* the outcome the dependency check of e reads for d is the outcome d
\* produced in this run.
C6_FilteredDependencyRuns ==
    \A d, e \in Indices :
        (AllNamesExist /\ ~AllowSuite(d) /\ AllowSuite(e) /\ DependsOn(e, d)) =>
            /\ Resolved =>
                  /\ Position(d) # 0
                  /\ Position(e) # 0
                  /\ Position(d) < Position(e)
            /\ RanAll =>
                  /\ Produced(d) # {}
                  /\ Produced(e) # {}
            /\ (AtDependencyRead /\ CurSuite = e /\ DependencyRead = d) =>
                  /\ Produced(d) # {}
                  /\ resultConnector[d] < Len(envResult.results)
                  /\ \A k \in Produced(d) :
                        envResult.results[resultConnector[d] + 1].total
                            = envResult.results[k].total

\* The assertions a test result holds after a body recorded oks and, when
\* synthetic, the assertion of the catch block of Test::Run was added.
ExpectedAsserts(oks, synthetic) ==
    [k \in 1..Len(oks) |->
        [total |-> IF oks[k] THEN "Success" ELSE "Fail", message |-> "assert"]]
    \o (IF synthetic
        THEN <<[total |-> "Fail", message |-> ExceptionMessage]>> ELSE <<>>)

\* The outcome and the message of each assertion of a test result.
Outcomes(asserts) ==
    [k \in 1..Len(asserts) |->
        [total |-> asserts[k].total, message |-> asserts[k].message]]

\* The last attempt of the current test went through body and leave fixture.
AttemptDone == pc = "test_end" \/ (pc = "test_begin" /\ testIt > 0)

\* C7: when OnTestEnd is asked after attempt n+1 of a test, having answered
\* true n times, the body, the enter fixture and the leave fixture of the test
\* ran n+1 times each and OnTestBegin was called once for it; the test result
\* holds the assertions of the last attempt only, and when OnTestEnd answers
\* false the suite outcome holds one test outcome per test so far, the last
\* of them that result.
C7_RepeatKeepsLastAttempt ==
    /\ AttemptDone =>
          /\ calls.test.body = calls.test.repeats + 1
          /\ calls.test.enter = calls.test.repeats + 1
          /\ calls.test.leave = calls.test.repeats + 1
          /\ calls.suite.testBegin = IF pc = "test_end" THEN testIt + 1 ELSE testIt
          /\ Outcomes(testResult.asserts) =
                ExpectedAsserts(calls.test.lastBody,
                                calls.test.lastFault = "Procceed")
    /\ pc \in {"test_begin", "exec_enter", "test_body", "exec_leave", "test_end"} =>
          /\ Len(suiteResult.results) = testIt
          /\ \A k \in 1..testIt : suiteResult.results[k].test = k - 1
    /\ (pc = "test_begin" /\ testIt > 0) =>
          suiteResult.results[testIt] = testResult

\* C7 witness: OnTestEnd answered true MaxRepeats times and then false for
\* the last of MaxTests tests of a suite, whose last attempt recorded one
\* passed assertion, and the suite outcome holds that outcome as Success.
C7_Witness ==
    /\ pc = "test_begin"
    /\ testIt = MaxTests
    /\ calls.test.repeats = MaxRepeats
    /\ calls.test.body = MaxRepeats + 1
    /\ calls.test.lastBody = <<TRUE>>
    /\ suiteResult.results[testIt].total = "Success"

\* C8: when a test body throws and OnException answers Procceed, the test
\* result holds the assertions the body recorded followed by one failed
\* assertion with the message "Unknown Exception was thrown.", and its total
\* is Fail; the leave fixture runs next, OnTestEnd is asked after it unless
\* the leave fixture ends the suite, and when OnTestEnd answers false the
\* result is added to the suite outcome and the suite goes to its next test.
C8_ProcceedAddsSyntheticFail ==
    /\ []((calls.test.lastFault = "Procceed" /\ (pc = "exec_leave" \/ AttemptDone)) =>
            /\ Outcomes(testResult.asserts) = ExpectedAsserts(calls.test.lastBody, TRUE)
            /\ testResult.total = "Fail"
            /\ Cardinality({k \in 1..Len(testResult.asserts) :
                    testResult.asserts[k].message = ExceptionMessage}) = 1)
    /\ [][
           /\ (pc = "test_body" /\ calls'.test.lastFault = "Procceed") =>
                pc' = "exec_leave"
           /\ (pc = "exec_leave" /\ calls.test.lastFault = "Procceed") =>
                /\ calls'.test.leave = calls.test.leave + 1
                /\ pc' \in {"test_end", "suite_end"}
           /\ (pc = "test_end" /\ calls.test.lastFault = "Procceed") =>
                \/ /\ pc' = "exec_enter"
                   /\ calls'.test.repeats = calls.test.repeats + 1
                \/ /\ pc' = "test_begin"
                   /\ testIt' = testIt + 1
                   /\ suiteResult'.results = Append(suiteResult.results, testResult)
                   /\ suiteResult'.total = "Fail"]_vars

\* C8 witness: the second test of a suite is entered after the body of the
\* first recorded an assertion, threw, and OnException answered Procceed.
C8_Witness ==
    /\ pc = "exec_enter"
    /\ testIt = 1
    /\ calls.test.body = 0
    /\ Len(suiteResult.results) = 1
    /\ Outcomes(suiteResult.results[1].asserts) =
          <<[total |-> "Success", message |-> "assert"],
            [total |-> "Fail", message |-> ExceptionMessage]>>

\* No fixture and no test of the suite being run has been called.
NothingRan ==
    /\ calls.suite.init = 0
    /\ calls.suite.exit = 0
    /\ calls.suite.testBegin = 0
    /\ calls.test.enter = 0
    /\ calls.test.body = 0
    /\ calls.test.leave = 0

\* C9: when OnDependencyFail answers AbortCurrent, no fixture and no test of
\* the suite is run, the suite outcome is Unknown and holds no test outcome;
\* OnSuiteEnd is then called, the outcome is appended to the environment
\* outcome and RunSuites goes on with the next position of the resolved order.
C9_AbortCurrentSkipsSuite ==
    /\ [](calls.suite.lastDepFail = "AbortCurrent" =>
            /\ pc = "suite_end"
            /\ NothingRan
            /\ suiteResult.suite = CurSuite
            /\ suiteResult.total = "Unknown"
            /\ suiteResult.results = <<>>
            /\ procceed)
    /\ [][calls.suite.lastDepFail = "AbortCurrent" =>
            /\ calls'.suiteEnd = Append(calls.suiteEnd, CurSuite)
            /\ envResult'.results = Append(envResult.results, suiteResult)
            /\ it' = it + 1
            /\ pc' = "suite_begin"]_vars

\* C9 witness: the first suite failed, the second, which depends on it, was
\* skipped with AbortCurrent and recorded as Unknown, and the third suite of
\* the resolved order has been begun.
C9_Witness ==
    /\ pc = "check_deps"
    /\ it = 2
    /\ Len(calls.suiteBegin) = 3
    /\ Len(envResult.results) = 2
    /\ envResult.results[1].total = "Fail"
    /\ DepsOf(envResult.results[2].suite) = {envResult.results[1].suite}
    /\ envResult.results[2].total = "Unknown"
    /\ envResult.results[2].results = <<>>

\* C10: when OnDependencyFail answers Abort, no fixture and no test of the
\* suite is run and the run is aborted: RunSuites records the suite and
\* returns, no suite after it is begun, and Run calls OnEnd.
C10_AbortEndsRun ==
    /\ [](calls.suite.lastDepFail = "Abort" =>
            /\ pc = "suite_end"
            /\ NothingRan
            /\ ~procceed)
    /\ [](~procceed =>
            /\ pc \in {"suite_end", "on_end", "returned"}
            /\ Len(calls.suiteBegin) = it + 1
            /\ pc = "returned" => calls.onEnd = 1)
    /\ [][calls.suite.lastDepFail = "Abort" =>
            /\ pc' = "on_end"
            /\ it' = it
            /\ calls'.suiteBegin = calls.suiteBegin
            /\ calls'.suiteEnd = Append(calls.suiteEnd, CurSuite)]_vars

\* C10 witness: Run returned after the first of three resolved suites
\* failed and the dependency check of the second, which depends on it, was
\* answered with Abort: the third suite was never begun.
C10_Witness ==
    /\ pc = "returned"
    /\ ~procceed
    /\ calls.onEnd = 1
    /\ Len(performSuites) = 3
    /\ Len(calls.suiteBegin) = 2
    /\ Len(envResult.results) = 2
    /\ envResult.results[1].total = "Fail"
    /\ DepsOf(envResult.results[2].suite) = {envResult.results[1].suite}
    /\ envResult.results[2].total = "Unknown"
    /\ envResult.results[2].results = <<>>

\* C11: when OnException answers Abort for a fixture or a test body, the
\* suite is left at once with the run marked as aborted; from then on every
\* step only records the suite, calls OnEnd or returns: no suite is begun and
\* no fixture, test body or OnTestBegin is called again.
C11_ExceptionAbortStopsRun ==
    /\ [](calls.suite.lastAnswer = "Abort" => (pc = "suite_end" /\ ~procceed))
    /\ [][~procceed =>
            /\ ~procceed'
            /\ pc' \in {"on_end", "returned"}
            /\ calls'.suiteBegin = calls.suiteBegin
            /\ calls'.suite = NoSuiteCalls
            /\ calls'.test = NoTestCalls]_vars

\* C11 witness: OnException answered Abort for the leave fixture of the
\* first of MaxTests tests of the first of MaxRunSuites suites.
C11_Witness ==
    /\ pc = "suite_end"
    /\ calls.suite.lastCall = "leave"
    /\ calls.suite.lastAnswer = "Abort"
    /\ it = 0
    /\ Len(performSuites) = MaxRunSuites
    /\ testIt = 0
    /\ SuiteAt(CurSuite).ntests = MaxTests
    /\ ~procceed

\* The callables Suite::Run calls through ExecFunction.
Fixtures == {"init", "enter", "leave", "exit"}

\* C12: when OnException answers AbortCurrent for a fixture, Suite::Run
\* returns at once without aborting the run (the exit fixture is not called
\* unless it is the one that threw); RunSuites then records the suite with
\* the test outcomes added so far and goes on with the next position of the
\* resolved order.
C12_FixtureAbortCurrentEndsSuite ==
    /\ []((calls.suite.lastAnswer = "AbortCurrent" /\ calls.suite.lastCall \in Fixtures) =>
            /\ pc = "suite_end"
            /\ procceed
            /\ calls.suite.exit = (IF calls.suite.lastCall = "exit" THEN 1 ELSE 0)
            /\ Len(suiteResult.results) = testIt)
    /\ [][(calls.suite.lastAnswer = "AbortCurrent" /\ calls.suite.lastCall \in Fixtures) =>
            /\ pc' = "suite_begin"
            /\ it' = it + 1
            /\ calls'.suiteEnd = Append(calls.suiteEnd, CurSuite)
            /\ envResult'.results = Append(envResult.results, suiteResult)]_vars

\* C12 witness: the second suite is begun after the first, a suite of
\* MaxTests tests, ended with one test outcome and without a failure.
C12_Witness ==
    /\ pc = "check_deps"
    /\ it = 1
    /\ Len(envResult.results) = 1
    /\ SuiteAt(performSuites[1]).ntests = MaxTests
    /\ Len(envResult.results[1].results) = 1
    /\ envResult.results[1].total = "Success"

\* C13: when RunSuites returned after an abort, the environment outcome that
\* Run gives to OnEnd holds one suite outcome for every suite that was begun,
\* in the order they were begun; the last is the outcome of the suite the
\* abort happened in, with the test outcomes added to it before the abort.
C13_AbortKeepsPartialOutcome ==
    (~procceed /\ pc \in {"on_end", "returned"}) =>
        /\ calls.onBegin = 1
        /\ calls.onEnd = (IF pc = "returned" THEN 1 ELSE 0)
        /\ Len(envResult.results) = Len(calls.suiteBegin)
        /\ \A k \in 1..Len(calls.suiteBegin) :
              envResult.results[k].suite = calls.suiteBegin[k]
        /\ envResult.results[Len(envResult.results)] = suiteResult
        /\ Len(suiteResult.results) <= SuiteAt(suiteResult.suite).ntests
        /\ \A k \in 1..Len(suiteResult.results) :
              suiteResult.results[k].test = k - 1

\* C13 witness: OnEnd is about to be called after an abort in the second
\* test of the second suite: the environment outcome holds both suites, the
\* second with the outcome of its first test.
C13_Witness ==
    /\ pc = "on_end"
    /\ ~procceed
    /\ Len(envResult.results) = 2
    /\ SuiteAt(envResult.results[2].suite).ntests = MaxTests
    /\ Len(envResult.results[2].results) = 1

\* The suites registered under a name.
NamedLike(name) == {i \in Indices : SuiteAt(i).name = name}

Least(S) == CHOOSE x \in S : \A y \in S : x <= y
Greatest(S) == CHOOSE x \in S : \A y \in S : x >= y

\* TopoVisit was just called for a dependency of the suite in the frame
\* below, under a name some suite is registered with.
CalledName == SuiteAt(stack[Len(stack) - 1].cur).deps[stack[Len(stack) - 1].j + 1]
ResolvedCall ==
    /\ pc = "visit_enter"
    /\ Len(stack) >= 2
    /\ NamedLike(CalledName) # {}

Unrelated(x, y) ==
    /\ x # y
    /\ Position(x) # 0
    /\ Position(y) # 0
    /\ ~DependsOn(x, y)
    /\ ~DependsOn(y, x)

\* C15 as stated: in a resolved order, with all dependency names registered,
\* two suites without a dependency relation stand in the order of their
\* registration indices.
C15_AsStated ==
    (AllNamesExist /\ Resolved) =>
        \A x, y \in Indices :
            (x < y /\ Unrelated(x, y)) => Position(x) < Position(y)

\* C15, amended: the same for two suites x < y when x is admitted by the
\* filter chain and y is not a dependency of a suite of the order that was
\* registered before x.
C15_RootsAscend ==
    (AllNamesExist /\ Resolved) =>
        \A x, y \in Indices :
            (/\ x < y
             /\ Unrelated(x, y)
             /\ AllowSuite(x)
             /\ \A k \in 0 .. x - 1 : Position(k) # 0 => ~DependsOn(k, y))
            => Position(x) < Position(y)

\* C15 witness: a resolved order of MaxSuites suites in which one unrelated
\* pair stands against registration order, the later suite being a dependency
\* of an earlier root, and another unrelated pair is covered by the amended
\* statement.
C15_Witness ==
    /\ pc = "on_begin"
    /\ AllNamesExist
    /\ Len(performSuites) = MaxSuites
    /\ \E u, v \in Indices :
          u < v /\ Unrelated(u, v) /\ Position(v) < Position(u)
    /\ \E x, y \in Indices :
          /\ x < y
          /\ Unrelated(x, y)
          /\ AllowSuite(x)
          /\ \A k \in 0 .. x - 1 : Position(k) # 0 => ~DependsOn(k, y)

\* Suites x and y lie on a common dependency cycle.
OnCycleWith(x, y) == IF x = y THEN DependsOn(x, x) ELSE DependsOn(x, y) /\ DependsOn(y, x)

\* C16: with all dependency names registered, the list given to
\* OnUnsolvableDependencies starts with the suite the visit met again while
\* it was on the stack, holds no suite twice, and holds only suites that lie
\* on a cycle with that suite.
C16_ReportedListIsCycle ==
    (AllNamesExist /\ calls.reported # <<>>) =>
        LET list == calls.reported[1] IN
        /\ list # <<>>
        /\ mark[list[1]].second
        /\ \A i, j \in 1..Len(list) : i # j => list[i] # list[j]
        /\ \A k \in 1..Len(list) : OnCycleWith(list[k], list[1])

\* C17: outside Run the policy is the one the caller installed, or none;
\* inside Run, where the callbacks are called, a policy is installed: the
\* caller's, or the fallback when the caller installed none; no step replaces
\* the caller's policy or installs it.
C17_FallbackDuringRunOnly ==
    /\ [](pc \in {"idle", "returned"} => m_Callback \in {"null", "user"})
    /\ [](pc \notin {"idle", "returned"} => m_Callback \in {"fallback", "user"})
    /\ [][(m_Callback = "user") <=> (m_Callback' = "user")]_vars

\* C17 witness: Run returned with no policy installed after a run of two
\* suites under the fallback policy, which skipped the second.
C17_Witness ==
    /\ pc = "returned"
    /\ m_Callback = "null"
    /\ calls.onEnd = 1
    /\ Len(envResult.results) = 2
    /\ envResult.results[2].total = "Unknown"

\* C18: every assertion a test body recorded through TestContext::AddResult
\* refers back to the test whose result holds it, to the suite of that test
\* and to the environment, and none of the three references is null.
C18_AssertionsReferToOwners ==
    \A k \in 1..Len(testResult.asserts) :
        testResult.asserts[k].message = "assert" =>
            /\ testResult.asserts[k].info.test = testResult.test
            /\ testResult.asserts[k].info.suite = testResult.suite
            /\ testResult.asserts[k].info.env = TheEnvironment

\* C19: the body of a test has been executed only if every installed filter
\* accepts the test.
C19_RejectedTestNeverRuns ==
    (pc \in {"exec_leave", "test_end"} /\ calls.test.body > 0) =>
        \A k \in 1..Len(m_Filter) : IsOKTest(m_Filter[k], CurSuite, testIt)

\* Where Suite::Run goes on after a callable that completed normally.
NormalNext(at) ==
    CASE at = "exec_init"  -> "test_begin"
      [] at = "exec_enter" -> "test_body"
      [] at = "test_body"  -> "exec_leave"
      [] at = "exec_leave" -> "test_end"
      [] at = "exec_exit"  -> "suite_end"

\* C20: when a fixture or a test body throws and OnException answers Ignore,
\* Suite::Run goes on where it goes on after a normal completion, the run is
\* not marked as aborted and the suite outcome is untouched; after a test
\* body the test result holds the assertions the body recorded before it
\* threw and nothing else, with Success as total when none of them failed.
C20_IgnoreContinuesAsNormal ==
    [][(/\ pc \in {"exec_init", "exec_enter", "test_body", "exec_leave", "exec_exit"}
        /\ calls'.suite.lastAnswer = "Ignore")
       => /\ pc' = NormalNext(pc)
          /\ procceed' = procceed
          /\ suiteResult' = suiteResult
          /\ testIt' = (IF pc = "exec_init" THEN 0 ELSE testIt)
          /\ pc \in {"exec_init", "exec_leave", "exec_exit"} => testResult' = testResult
          /\ pc = "exec_enter" => testResult' = NewTestResult(CurSuite, testIt)
          /\ pc = "test_body" =>
                /\ Outcomes(testResult'.asserts)
                      = ExpectedAsserts(calls'.test.lastBody, FALSE)
                /\ testResult'.total =
                      (IF \E k \in 1..Len(calls'.test.lastBody) : ~calls'.test.lastBody[k]
                       THEN "Fail" ELSE "Success")]_vars

\* C20 witness: the leave fixture is next after a test body that recorded a
\* passed assertion and then threw, with Ignore as the answer.
C20_Witness ==
    /\ pc = "exec_leave"
    /\ calls.suite.lastCall = "body"
    /\ calls.suite.lastAnswer = "Ignore"
    /\ calls.test.lastBody = <<TRUE>>
    /\ Len(testResult.asserts) = 1
    /\ testResult.total = "Success"

\* The positions of Suite::Run between the init fixture and the exit fixture.
InTest == {"exec_enter", "test_body", "exec_leave", "test_end"}
InSuite == {"test_begin", "exec_exit"} \cup InTest

\* C21: when no callable throws and the dependency check passed, a suite goes
\* through init, then for each test in registration order OnTestBegin and one
\* or more attempts of enter fixture, body, leave fixture and OnTestEnd, then
\* exit, then OnSuiteEnd: the init fixture ran once before any test and the
\* exit fixture only after the last one, OnTestBegin was called once for each
\* test so far, and each attempt called enter, body and leave once, in order.
C21_StepsInOrder ==
    /\ [](pc = "exec_init" => NothingRan)
    /\ [](pc \in InSuite => (calls.suite.init = 1 /\ calls.suite.exit = 0))
    /\ [](pc \in InTest =>
            /\ testIt < SuiteAt(CurSuite).ntests
            /\ calls.suite.testBegin = testIt + 1
            /\ testResult.test = testIt
            /\ calls.test.enter =
                 calls.test.repeats + (IF pc = "exec_enter" THEN 0 ELSE 1)
            /\ calls.test.body =
                 calls.test.repeats + (IF pc \in {"exec_leave", "test_end"} THEN 1 ELSE 0)
            /\ calls.test.leave =
                 calls.test.repeats + (IF pc = "test_end" THEN 1 ELSE 0))
    /\ [][
           /\ (pc = "check_deps" /\ calls'.suite.depFail = 0) =>
                pc' \in {"check_deps", "exec_init"}
           /\ (pc = "exec_init" /\ calls'.suite.lastAnswer = "none") =>
                (pc' = "test_begin" /\ testIt' = 0)
           /\ pc = "test_begin" =>
                IF testIt < SuiteAt(CurSuite).ntests
                THEN /\ pc' = "exec_enter"
                     /\ calls'.suite.testBegin = calls.suite.testBegin + 1
                     /\ calls'.test = NoTestCalls
                ELSE /\ pc' = "exec_exit"
                     /\ calls.suite.testBegin = SuiteAt(CurSuite).ntests
           /\ (pc = "exec_enter" /\ calls'.suite.lastAnswer = "none") =>
                pc' = "test_body"
           /\ (pc = "test_body" /\ calls'.suite.lastAnswer = "none") =>
                pc' = "exec_leave"
           /\ (pc = "exec_leave" /\ calls'.suite.lastAnswer = "none") =>
                pc' = "test_end"
           /\ pc = "test_end" =>
                \/ (pc' = "exec_enter" /\ testIt' = testIt)
                \/ (pc' = "test_begin" /\ testIt' = testIt + 1)
           /\ (pc = "exec_exit" /\ calls'.suite.lastAnswer = "none") =>
                (pc' = "suite_end" /\ calls'.suite.exit = 1 /\ procceed')
           /\ pc = "suite_end" =>
                calls'.suiteEnd = Append(calls.suiteEnd, CurSuite)]_vars

\* C21 witness: in a run in which no callable can throw and no suite failed,
\* the second suite, which depends on the first, returned from its exit
\* fixture after MaxTests tests and OnSuiteEnd is next.
C21_Witness ==
    /\ pc = "suite_end"
    /\ it = 1
    /\ \A i \in Indices : ~SuiteAt(i).throws
    /\ DepsOf(CurSuite) = {performSuites[1]}
    /\ envResult.total = "Success"
    /\ calls.suite.lastCall = "exit"
    /\ calls.suite.init = 1
    /\ calls.suite.exit = 1
    /\ calls.suite.testBegin = MaxTests
    /\ Len(suiteResult.results) = MaxTests

\* The tests of the suite being run whose body was executed: the tests the
\* loop of Suite::Run is through, and the one it is in once its body ran.
ExecutedTests ==
    IF calls.suite.init = 0 THEN 0
    ELSE testIt + (IF calls.suite.testBegin = testIt + 1 /\ calls.test.body > 0
                   THEN 1 ELSE 0)

\* C22: when Suite::Run has returned or the suite was skipped, the suite
\* outcome holds one test outcome for each test whose body was executed, and
\* no other, in registration order, whatever the policy answered.
C22_OneOutcomePerExecutedTest ==
    pc = "suite_end" =>
        /\ Len(suiteResult.results) = ExecutedTests
        /\ \A k \in 1..Len(suiteResult.results) :
              suiteResult.results[k].test = k - 1

\* The totals of a sequence of outcomes.
Totals(results) == [k \in 1..Len(results) |-> results[k].total]

\* The dependency check ended the suite being run: no fixture was called.
ShortCircuited == calls.suite.init = 0

\* Run is at or past the call of OnEnd.
AtOnEnd == pc = "on_end" \/ (pc = "returned" /\ calls.onEnd = 1)

\* C23: when OnEnd is called, the environment outcome holds the outcomes of
\* the suites that were begun, in that order, which is a prefix of the
\* resolved order, and its total is the maximum severity of their totals; the
\* total of a suite outcome is the maximum severity of its test outcomes,
\* except that a suite ended by the dependency check is recorded as Unknown
\* without test outcomes; the total of a test outcome is the maximum severity
\* of its assertions.
C23_OutcomeTreeAggregates ==
    /\ [](pc = "suite_end" =>
            IF ShortCircuited
            THEN suiteResult.total = "Unknown" /\ suiteResult.results = <<>>
            ELSE suiteResult.total = MaxSeverity(Totals(suiteResult.results)))
    /\ [][pc = "suite_end" =>
            envResult'.results = Append(envResult.results, suiteResult)]_vars
    /\ [](AtOnEnd =>
            /\ Len(envResult.results) <= Len(performSuites)
            /\ Len(envResult.results) = Len(calls.suiteBegin)
            /\ \A k \in 1..Len(envResult.results) :
                  /\ envResult.results[k].suite = performSuites[k]
                  /\ envResult.results[k].suite = calls.suiteBegin[k]
                  /\ \/ envResult.results[k].total =
                          MaxSeverity(Totals(envResult.results[k].results))
                     \/ /\ envResult.results[k].total = "Unknown"
                        /\ envResult.results[k].results = <<>>
                  /\ \A j \in 1..Len(envResult.results[k].results) :
                        envResult.results[k].results[j].total =
                            MaxSeverity(Totals(envResult.results[k].results[j].asserts))
            /\ envResult.total = MaxSeverity(Totals(envResult.results)))

\* C23 witness: OnEnd is called after a run of two suites: the first holds a
\* passed and a failed test and is Fail, the second was ended by the
\* dependency check and is Unknown, and the environment outcome is Fail.
C23_Witness ==
    /\ pc = "on_end"
    /\ Len(envResult.results) = 2
    /\ Totals(envResult.results[1].results) = <<"Success", "Fail">>
    /\ Len(envResult.results[1].results[1].asserts) = 1
    /\ envResult.results[1].total = "Fail"
    /\ envResult.results[2].total = "Unknown"
    /\ envResult.results[2].results = <<>>
    /\ envResult.total = "Fail"

\* The policy's answer for the last callable made Suite::Run return at once:
\* ExecFunction returned false for a fixture, or Test::Run returned false.
EndingDecision ==
    \/ /\ calls.suite.lastCall \in Fixtures
       /\ calls.suite.lastAnswer \notin {"none", "Ignore", "Procceed"}
    \/ /\ calls.suite.lastCall = "body"
       /\ calls.suite.lastAnswer = "Abort"

\* C24 as stated: whatever the policy answers, OnSuiteEnd is called for a
\* suite whose init fixture was called only after its exit fixture was
\* called, and the leave fixture was called as often as the enter fixture.
C24_AsStated ==
    pc = "suite_end" =>
        /\ calls.suite.init = 1 => calls.suite.exit = 1
        /\ calls.test.leave = calls.test.enter

\* C24, amended: the same as long as no answer made Suite::Run return at
\* once (a test body that threw with the answer AbortCurrent included); after
\* such an answer the exit fixture was not called unless it was the callable
\* that threw, and the leave fixture of the attempt was not called when the
\* enter fixture or the body was.
C24_PairedUnlessSuiteEnded ==
    /\ pc = "test_end" => calls.test.leave = calls.test.enter
    /\ (pc = "suite_end" /\ calls.suite.init = 1) =>
          IF EndingDecision
          THEN /\ calls.suite.exit = (IF calls.suite.lastCall = "exit" THEN 1 ELSE 0)
               /\ calls.test.enter - calls.test.leave =
                    (IF calls.suite.lastCall \in {"enter", "body"} THEN 1 ELSE 0)
          ELSE /\ calls.suite.exit = 1
               /\ calls.suite.lastCall = "exit"
               /\ calls.test.leave = calls.test.enter

\* C24 witness: the exit fixture returned in a suite of MaxTests tests whose
\* last body threw with the answer AbortCurrent, and whose leave fixture was
\* called after it.
C24_Witness ==
    /\ pc = "suite_end"
    /\ calls.suite.init = 1
    /\ calls.suite.exit = 1
    /\ calls.suite.lastCall = "exit"
    /\ calls.suite.lastAnswer = "none"
    /\ calls.test.lastFault = "AbortCurrent"
    /\ calls.test.enter = 1
    /\ calls.test.leave = 1
    /\ testIt = MaxTests

\* No suite depends on itself, directly or through other suites.
Acyclic == \A x \in Indices : ~DependsOn(x, x)

\* C25: when all dependency names exist, no dependency cycle exists and the
\* policy answers Ignore to every OnException and OnDependencyFail and false
\* to every OnTestEnd, resolution succeeds and every suite of the resolved
\* order is run in full: its init fixture once, each of its tests once with
\* enter fixture, body and leave fixture, and its exit fixture once, so that
\* at OnEnd the environment outcome holds every suite of the order with one
\* test outcome per registered test.
C25_IgnoreRunsEverything ==
    (AllNamesExist /\ Acyclic) =>
        /\ pc \notin {"solve_failed", "crashed"}
        /\ procceed
        /\ pc = "exec_init" => calls.suite.depFail <= Len(SuiteAt(CurSuite).deps)
        /\ pc = "test_end" =>
              /\ calls.test.enter = 1
              /\ calls.test.body = 1
              /\ calls.test.leave = 1
        /\ pc = "suite_end" =>
              /\ calls.suite.init = 1
              /\ calls.suite.exit = 1
              /\ calls.suite.testBegin = SuiteAt(CurSuite).ntests
              /\ Len(suiteResult.results) = SuiteAt(CurSuite).ntests
        /\ AtOnEnd =>
              /\ Len(envResult.results) = Len(performSuites)
              /\ \A k \in 1..Len(performSuites) :
                    /\ envResult.results[k].suite = performSuites[k]
                    /\ Len(envResult.results[k].results) =
                          SuiteAt(performSuites[k]).ntests

\* C25 witness: the second suite, which depends on the first, ran all of its
\* MaxTests tests and its exit fixture although the first suite failed and
\* its own exit fixture threw, both answered with Ignore.
C25_Witness ==
    /\ m_Callback = "ignoring"
    /\ pc = "suite_end"
    /\ it = 1
    /\ envResult.results[1].total = "Fail"
    /\ DepsOf(CurSuite) = {performSuites[1]}
    /\ calls.suite.depFail = 1
    /\ calls.suite.lastCall = "exit"
    /\ calls.suite.lastAnswer = "Ignore"
    /\ Len(suiteResult.results) = MaxTests

\* C26: when a test body throws and OnException answers AbortCurrent, the
\* test result holds the assertions the body recorded and no synthetic one;
\* the leave fixture runs next without the run or the suite being ended,
\* OnTestEnd is asked after it unless the leave fixture ends the suite, and
\* when OnTestEnd answers false the result is added to the suite outcome and
\* the suite goes on with its next test.
C26_BodyAbortCurrentCutsAttemptOnly ==
    /\ []((calls.test.lastFault = "AbortCurrent" /\ (pc = "exec_leave" \/ AttemptDone)) =>
            /\ Outcomes(testResult.asserts) = ExpectedAsserts(calls.test.lastBody, FALSE)
            /\ \A k \in 1..Len(testResult.asserts) :
                  testResult.asserts[k].message # ExceptionMessage)
    /\ [][
           /\ (pc = "test_body" /\ calls'.test.lastFault = "AbortCurrent") =>
                /\ pc' = "exec_leave"
                /\ procceed' = procceed
                /\ suiteResult' = suiteResult
                /\ testIt' = testIt
           /\ (pc = "exec_leave" /\ calls.test.lastFault = "AbortCurrent") =>
                /\ calls'.test.leave = calls.test.leave + 1
                /\ pc' \in {"test_end", "suite_end"}
                /\ calls'.suite.lastAnswer \in {"none", "Ignore", "Procceed"} =>
                      pc' = "test_end"
           /\ (pc = "test_end" /\ calls.test.lastFault = "AbortCurrent") =>
                \/ /\ pc' = "exec_enter"
                   /\ calls'.test.repeats = calls.test.repeats + 1
                \/ /\ pc' = "test_begin"
                   /\ testIt' = testIt + 1
                   /\ suiteResult'.results = Append(suiteResult.results, testResult)
           /\ (/\ pc = "test_begin"
               /\ calls.test.lastFault = "AbortCurrent"
               /\ testIt < SuiteAt(CurSuite).ntests) =>
                /\ pc' = "exec_enter"
                /\ calls'.suite.testBegin = calls.suite.testBegin + 1]_vars

\* C26 witness: the loop of a suite of MaxTests tests is at its second test
\* after the body of the first recorded a failed assertion and threw, with
\* AbortCurrent as the answer: the suite outcome holds that test outcome,
\* with the one assertion.
C26_Witness ==
    /\ pc = "test_begin"
    /\ testIt = 1
    /\ SuiteAt(CurSuite).ntests = MaxTests
    /\ calls.test.lastFault = "AbortCurrent"
    /\ calls.test.lastBody = <<FALSE>>
    /\ calls.test.leave = 1
    /\ suiteResult.results = <<testResult>>
    /\ Len(testResult.asserts) = 1
    /\ testResult.total = "Fail"

\* The suites the filter chain admits, and the suites of a sequence.
Admitted == {i \in Indices : AllowSuite(i)}
Members(seq) == {seq[k] : k \in 1..Len(seq)}

\* C27: when SolveDependencies has succeeded, the resolved order holds no
\* suite twice and its suites are exactly the admitted suites and the suites
\* reachable from them through dependency edges; no other suite is begun.
C27_OrderIsAdmittedClosure ==
    Resolved =>
        /\ \A i, j \in 1..Len(performSuites) :
              i # j => performSuites[i] # performSuites[j]
        /\ Members(performSuites) = Closure(Admitted)
        /\ Members(calls.suiteBegin) \subseteq Closure(Admitted)

\* OnSuiteBegin was called for a suite and OnSuiteEnd not yet.
SuiteOpen == Len(calls.suiteBegin) > Len(calls.suiteEnd)

\* The positions of RunSuites between OnSuiteBegin and OnSuiteEnd.
BetweenSuiteCalls == {"check_deps", "exec_init", "suite_end"} \cup InSuite

\* C28: at most one suite is begun and not ended, namely while RunSuites is
\* between the two calls; OnSuiteEnd is called only for the suite begun last,
\* together with the one append of its outcome to the environment outcome,
\* and OnSuiteBegin only when no suite is open, so the suites ended and the
\* outcomes recorded are the suites begun, in order; and every suite begun is
\* ended, also when the dependency check skipped it or a fault ended the
\* suite or the run.
C28_SuiteNotificationsPaired ==
    /\ [](/\ Len(calls.suiteBegin) - Len(calls.suiteEnd) \in {0, 1}
          /\ SuiteOpen <=> pc \in BetweenSuiteCalls
          /\ Len(envResult.results) = Len(calls.suiteEnd)
          /\ \A k \in 1..Len(calls.suiteEnd) :
                /\ calls.suiteEnd[k] = calls.suiteBegin[k]
                /\ envResult.results[k].suite = calls.suiteBegin[k])
    /\ [][
           /\ calls'.suiteBegin # calls.suiteBegin =>
                /\ ~SuiteOpen
                /\ calls'.suiteBegin = Append(calls.suiteBegin, CurSuite)
                /\ calls'.suiteEnd = calls.suiteEnd
                /\ envResult' = envResult
           /\ calls'.suiteEnd # calls.suiteEnd =>
                /\ SuiteOpen
                /\ suiteResult.suite = calls.suiteBegin[Len(calls.suiteBegin)]
                /\ calls'.suiteEnd = Append(calls.suiteEnd, suiteResult.suite)
                /\ envResult'.results = Append(envResult.results, suiteResult)
                /\ calls'.suiteBegin = calls.suiteBegin
           /\ envResult'.results # envResult.results =>
                (pc = "idle" \/ calls'.suiteEnd # calls.suiteEnd)]_vars
    /\ SuiteOpen ~> ~SuiteOpen

\* C28 witness: Run returned after two suites were begun and ended: the
\* first failed, the second was skipped by the dependency check with the
\* answer Abort, which ended the run.
C28_Witness ==
    /\ pc = "returned"
    /\ ~procceed
    /\ Len(calls.suiteBegin) = 2
    /\ calls.suiteEnd = calls.suiteBegin
    /\ Len(envResult.results) = 2
    /\ envResult.results[1].total = "Fail"
    /\ envResult.results[2].total = "Unknown"
    /\ envResult.results[2].results = <<>>

\* SolveDependencies returned false: Run only removes the fallback policy.
ResolutionFailed == pc = "solve_failed" \/ (pc = "returned" /\ calls.onBegin = 0)

\* C29: OnBegin and OnEnd are called at most once each; when
\* SolveDependencies fails neither is called, and when it succeeds OnBegin is
\* called before any OnSuiteBegin and OnEnd after every OnSuiteEnd, as the
\* last call before Run returns, whether or not the run was aborted; a run
\* whose resolution succeeded comes to its call of OnEnd.
C29_BeginAndEndOnce ==
    /\ [](/\ calls.onBegin \in {0, 1}
          /\ calls.onEnd \in {0, 1}
          /\ calls.onEnd <= calls.onBegin
          /\ ResolutionFailed =>
                /\ calls.onBegin = 0
                /\ calls.onEnd = 0
                /\ calls.suiteBegin = <<>>
          /\ calls.onBegin = 0 => (calls.suiteBegin = <<>> /\ calls.suiteEnd = <<>>)
          /\ pc = "returned" => calls.onEnd = calls.onBegin
          /\ calls.onEnd = 1 => (pc = "returned" /\ ~SuiteOpen))
    /\ [][
           /\ calls'.onBegin # calls.onBegin =>
                (pc = "on_begin" /\ calls.onBegin = 0 /\ calls.suiteBegin = <<>>)
           /\ calls'.onEnd # calls.onEnd =>
                (pc = "on_end" /\ calls.onEnd = 0 /\ calls.onBegin = 1 /\ ~SuiteOpen)
           /\ calls.onEnd = 1 =>
                (calls'.suiteBegin = calls.suiteBegin /\ calls'.suiteEnd = calls.suiteEnd)]_vars
    /\ (pc = "on_begin") ~> (calls.onEnd = 1)

\* C29 witness: Run returned after OnBegin and OnEnd were called once each in
\* a run of two suites that a fault in the second aborted.
C29_Witness ==
    /\ pc = "returned"
    /\ calls.onBegin = 1
    /\ calls.onEnd = 1
    /\ ~procceed
    /\ Len(calls.suiteBegin) = 2
    /\ Len(calls.suiteEnd) = 2
    /\ SuiteAt(performSuites[2]).throws
    /\ envResult.results[2].total # "Unknown"

\* C30: as long as every callable and callback returns and OnTestEnd answers
\* true only finitely often for each test, SolveDependencies returns, with
\* success or failure, whatever the dependency graph (cycles and
\* self-dependencies included), and Run returns; and whenever OnTestEnd
\* answers true the same test is attempted again, whatever the number of
\* attempts it has had, so that a policy that always answers true repeats the
\* test forever.
C30_RunTerminates ==
    /\ <>(Resolved \/ ResolutionFailed)
    /\ <>(pc = "returned")
    /\ [][(pc = "test_end" /\ calls'.test.repeats # calls.test.repeats) =>
            /\ pc' = "exec_enter"
            /\ testIt' = testIt
            /\ suiteResult' = suiteResult]_vars

\* The total suite d was recorded with in this run.
RecordedTotal(d) == envResult.results[CHOOSE k \in Produced(d) : TRUE].total

\* C31: the dependency check asks OnDependencyFail for every dependency that
\* was recorded with a total other than Success, Unknown as well as Fail, and
\* for no other; when the answer is AbortCurrent the suite is recorded as
\* Unknown without a fixture or test being run and the run goes on. Hence a
\* suite recorded as Unknown under that answer fails the check of the suites
\* that depend on it in the same way.
C31_UnknownDependencyFailsCheck ==
    /\ [][(/\ AtDependencyRead
           /\ DependencyRead # MapEnd
           /\ Produced(DependencyRead) # {}) =>
            IF RecordedTotal(DependencyRead) \in {"Fail", "Unknown"}
            THEN /\ calls'.suite.depFail = calls.suite.depFail + 1
                 /\ calls'.suite.lastDepFail = "AbortCurrent" =>
                       /\ pc' = "suite_end"
                       /\ suiteResult'.total = "Unknown"
                       /\ suiteResult'.results = <<>>
                       /\ procceed'
            ELSE /\ calls'.suite.depFail = calls.suite.depFail
                 /\ depI' = depI + 1
                 /\ pc' = "check_deps"]_vars
    /\ []((pc = "suite_end" /\ calls.suite.lastDepFail = "AbortCurrent") =>
            (NothingRan /\ calls.suite.depFail >= 1))

\* A fixture of the suite being run threw and OnException answered
\* AbortCurrent: Suite::Run returned true from ExecFunction's out-parameter.
FixtureCutShort ==
    /\ calls.suite.lastCall \in Fixtures
    /\ calls.suite.lastAnswer = "AbortCurrent"

\* C32: a suite a fixture fault ended under AbortCurrent is recorded with the
\* test outcomes appended before the fault and with their aggregate as its
\* total; when the fault is in the init fixture it is recorded with no test
\* outcome and the total Success, and the dependency check of a suite that
\* depends on a suite recorded as Success goes on to the next dependency
\* without calling OnDependencyFail.
C32_FixtureFaultKeepsPartialAggregate ==
    /\ [](FixtureCutShort =>
            /\ pc = "suite_end"
            /\ suiteResult.total = MaxSeverity(Totals(suiteResult.results))
            /\ Len(suiteResult.results) = testIt
            /\ calls.suite.lastCall = "init" =>
                  suiteResult = NewSuiteResult(CurSuite))
    /\ [][FixtureCutShort =>
            envResult'.results = Append(envResult.results, suiteResult)]_vars
    /\ [][(/\ AtDependencyRead
           /\ DependencyRead # MapEnd
           /\ Produced(DependencyRead) # {}
           /\ RecordedTotal(DependencyRead) = "Success") =>
            /\ calls'.suite.depFail = calls.suite.depFail
            /\ depI' = depI + 1
            /\ pc' = "check_deps"]_vars

\* C33: when every declared dependency name is the name of a registered
\* suite, no step of Run changes the suite list, the name->index map or the
\* filter chain: during the run and after it returned the map is the one
\* registration built, with the same keys bound to the same indices.
C33_RunLeavesRegistry ==
    /\ [](AllNamesExist => m_SuiteMap = Registered)
    /\ [][AllNamesExist => registry' = registry]_vars

\* C33 witness: Run returned after a run in which every dependency name
\* exists, a suite registered after the first one was looked up by name in
\* the dependency check of a suite that was then run and recorded, and a
\* filter is installed; the map is the one registration built.
C33_Witness ==
    /\ pc = "returned"
    /\ AllNamesExist
    /\ m_Filter # <<>>
    /\ Len(envResult.results) >= 2
    /\ \E k \in 1..Len(envResult.results) :
          /\ DepsOf(envResult.results[k].suite) \ {0} # {}
          /\ envResult.results[k].total # "Unknown"
    /\ m_SuiteMap = Registered

\* C34: in the earlier revision, once Suite::Run has returned false for a
\* suite (OnException answered Abort for one of its fixtures or for the body
\* of one of its tests), RunSuites begins no further suite of the resolved
\* order.
C34_OldAbortStopsRunSuites ==
    [][calls.suite.lastAnswer = "Abort" =>
         calls'.suiteBegin = calls.suiteBegin]_vars

====
